---- MODULE Spec2Model ----
(***************************************************************************)
(* Model of the bloomberg-lite metric connectors (src/src/connectors) and  *)
(* of the transform layer (src/src/transforms).                            *)
(*                                                                         *)
(* The orchestrator calls one connector operation at a time.  A state of   *)
(* the model is either idle or holds the last completed call: which        *)
(* operation ran, on which config and input, the network exchanges it      *)
(* made (reqlog) and what it returned or raised (ret).                     *)
(*                                                                         *)
(* Python values are modelled as follows.                                  *)
(*   - None and str in ConnectorConfig fields: TLA+ strings, None being    *)
(*     the reserved string "None" (never used as a field value).           *)
(*   - JSON values: tagged records, [t |-> "null"], [t |-> "num", n],      *)
(*     [t |-> "str", s], [t |-> "list", l], [t |-> "dict", d]; a JSON      *)
(*     string is a sequence of one-character strings; a number is an       *)
(*     integer count of thousandths (2.5 is 2500), and arithmetic on       *)
(*     numbers is exact decimal arithmetic.                                *)
(*   - ConnectorConfig.metric_id, which the code splits at ".": the        *)
(*     sequence of its "."-separated components.                           *)
(*   - a raised exception: [kind |-> "raise", exc |-> <class name>].       *)
(* requests.Response.json() raises requests.exceptions.JSONDecodeError,    *)
(* a RequestException, on a body that is not JSON (requests >= 2.27).      *)
(***************************************************************************)
EXTENDS Integers, Sequences, FiniteSets, TLC

VARIABLES pc, op, config, raw, reqlog, ret

vars == <<pc, op, config, raw, reqlog, ret>>

-----------------------------------------------------------------------------
(* Python values *)

None == "None"

\* Python truthiness of an Optional[str] config field: `not x`.
Truthy(x) == x # None /\ x # ""

\* `a or b` on Optional[str].
Or(a, b) == IF Truthy(a) THEN a ELSE b

JNull == [t |-> "null"]
JNum(n) == [t |-> "num", n |-> n]
JStr(s) == [t |-> "str", s |-> s]
JBool(b) == [t |-> "bool", b |-> b]
\* A str copied from a ConnectorConfig field into a payload.
CStr(s) == [t |-> "cstr", s |-> s]
JList(l) == [t |-> "list", l |-> l]
JDict(d) == [t |-> "dict", d |-> d]
\* A response body that does not parse as JSON.
NotJSON == [t |-> "notjson"]
\* A key that a dict does not hold (the result of a failed lookup).
Absent == [t |-> "absent"]

Has(j, k) == j.t = "dict" /\ k \in DOMAIN j.d

-----------------------------------------------------------------------------
(* Numbers: float(str) *)

\* Thousandths in one unit.
Unit == 10 * 10 * 10

Digits == {"0", "1", "2", "3", "4", "5", "6", "7", "8", "9"}

DigitVal(c) ==
    CASE c = "0" -> 0 [] c = "1" -> 1 [] c = "2" -> 2 [] c = "3" -> 3 [] c = "4" -> 4
      [] c = "5" -> 5 [] c = "6" -> 6 [] c = "7" -> 7 [] c = "8" -> 8 [] OTHER -> 9

AllDigits(s) == \A i \in 1..Len(s) : s[i] \in Digits

\* int(s) of a string of digits.
RECURSIVE IntOf(_)
IntOf(s) == IF s = <<>> THEN 0 ELSE 10 * IntOf(SubSeq(s, 1, Len(s) - 1)) + DigitVal(s[Len(s)])

\* Position of the first c in s, 0 when there is none: s.find(c) + 1.
Find(s, c) ==
    IF \E i \in 1..Len(s) : s[i] = c
    THEN CHOOSE i \in 1..Len(s) : s[i] = c /\ \A j \in 1..(i - 1) : s[j] # c
    ELSE 0

\* float(s) for the decimal literals [-]digits[.digits] with at most three
\* fractional digits; every other string of the model's inputs is one
\* float() rejects with ValueError.
FloatOK(s) ==
    LET body == IF s # <<>> /\ s[1] = "-" THEN Tail(s) ELSE s
        dot == Find(body, ".")
        ip == IF dot = 0 THEN body ELSE SubSeq(body, 1, dot - 1)
        fp == IF dot = 0 THEN <<>> ELSE SubSeq(body, dot + 1, Len(body))
    IN  /\ AllDigits(ip) /\ AllDigits(fp)
        /\ Len(ip) + Len(fp) > 0
        /\ Len(fp) <= 3

Float(s) ==
    LET neg == s[1] = "-"
        body == IF neg THEN Tail(s) ELSE s
        dot == Find(body, ".")
        ip == IF dot = 0 THEN body ELSE SubSeq(body, 1, dot - 1)
        fp == IF dot = 0 THEN <<>> ELSE SubSeq(body, dot + 1, Len(body))
        frac == IF Len(fp) = 0 THEN 0
                ELSE IF Len(fp) = 1 THEN 100 * IntOf(fp)
                ELSE IF Len(fp) = 2 THEN 10 * IntOf(fp)
                ELSE IntOf(fp)
        mag == Unit * IntOf(ip) + frac
    IN  IF neg THEN 0 - mag ELSE mag

-----------------------------------------------------------------------------
(* base.FetchResult and the outcome of a call *)

\* The value of FetchResult.error when the constructor call omits it.
FetchResultDefaultError == None

FetchResult(success, data, error, source) ==
    [success |-> success, data |-> data, error |-> error, source |-> source]

Return(v) == [kind |-> "return", result |-> v]
Raise(exc) == [kind |-> "raise", exc |-> exc]

Ok(source, data) == Return(FetchResult(TRUE, data, FetchResultDefaultError, source))
Fail(source, msg) == Return(FetchResult(FALSE, JList(<<>>), msg, source))

-----------------------------------------------------------------------------
(* The network: requests.get *)

\* Messages of the transport-level exceptions requests.get raises.
TransportErrors == {"Connection timeout", "Read timed out"}

ErrorResponse(msg) == [kind |-> "error", msg |-> msg]
HttpResponse(status, body) == [kind |-> "http", status |-> status, body |-> body]

\* response.raise_for_status(): HTTPError for 4xx and 5xx.
HTTPErrorMsg(status) ==
    IF status = 401 THEN "401 Client Error"
    ELSE IF status = 404 THEN "404 Client Error"
    ELSE "500 Server Error"

FailStatuses == {401, 404, 500}

\* Every outcome of one requests.get whose 200 bodies are `bodies`.
Responses(bodies) ==
    {ErrorResponse(m) : m \in TransportErrors}
    \cup {HttpResponse(s, NotJSON) : s \in FailStatuses}
    \cup {HttpResponse(200, b) : b \in bodies \cup {NotJSON}}

JSONDecodeErrorMsg == "Expecting value: line 1 column 1 (char 0)"

Exchange(req, resp) == [req |-> req, resp |-> resp]

-----------------------------------------------------------------------------
(* base.ConnectorConfig *)

\* A config with no addressing field set, as the tests construct it.
BaseConfig ==
    [metric_id |-> <<"test">>, series_id |-> None, dataflow |-> None,
     series_key |-> None, indicator |-> None, country |-> None,
     indicator_code |-> None, provider |-> None, dataset |-> None,
     series |-> None, multiplier |-> Unit, decimals |-> 2, unit |-> None]

\* An Optional[str] field: unset, empty, or set to v.
Opt(v) == {None, "", v}

\* What one call did: the exchanges with the network, in order, and the outcome.
NoCall(out) == [log |-> <<>>, out |-> out]
OneCall(req, resp, out) == [log |-> <<Exchange(req, resp)>>, out |-> out]

\* The try block shared by the single-request fetches: requests.get,
\* raise_for_status, response.json(), then the connector's own handling of
\* the decoded body; `except requests.RequestException as e` turns the first
\* three into success=False, error=str(e).
\* `processed` is that handling's outcome on Body(resp).
Try(source, resp, processed) ==
    IF resp.kind = "error" THEN Fail(source, resp.msg)
    ELSE IF resp.status >= 400 THEN Fail(source, HTTPErrorMsg(resp.status))
    ELSE IF resp.body.t = "notjson" THEN Fail(source, JSONDecodeErrorMsg)
    ELSE processed

\* The body response.json() decodes, when there is a response.
Body(resp) == IF resp.kind = "http" THEN resp.body ELSE NotJSON

JTruthy(j) ==
    CASE j.t = "null" -> FALSE
      [] j.t = "num" -> j.n # 0
      [] j.t = "str" -> j.s # <<>>
      [] j.t = "cstr" -> j.s # ""
      [] j.t = "bool" -> j.b
      [] j.t = "list" -> j.l # <<>>
      [] j.t = "dict" -> DOMAIN j.d # {}
      [] OTHER -> FALSE

EmptyDict == JDict(<<>>)
EmptyList == JList(<<>>)

\* dict.get(k, default) on a value known to be a dict.
Get(j, k, default) == IF k \in DOMAIN j.d THEN j.d[k] ELSE default

-----------------------------------------------------------------------------
(* fred.FREDConnector.fetch *)

FREDBodies ==
    {JDict([observations |-> EmptyList]),
     JDict([error_message |-> JStr(<<"b","a","d">>)]),
     EmptyList, JNull}

\* After data = response.json().
FREDProcess(data) ==
    IF data.t \in {"null", "num"} THEN Raise("TypeError")
    ELSE IF Has(data, "observations") THEN Ok("fred", data.d.observations)
    ELSE IF data.t = "dict" THEN Fail("fred", "Unexpected response format")
    ELSE Raise("AttributeError")

\* FRED fetch with the series_id check left out.
FREDConnector_fetch_unchecked(cfg, resp) ==
    OneCall(<<"fred", cfg.series_id>>, resp, Try("fred", resp, FREDProcess(Body(resp))))

FREDConnector_fetch(cfg, resp) ==
    IF ~Truthy(cfg.series_id)
    THEN NoCall(Fail("fred", "series_id required for FRED connector"))
    ELSE OneCall(<<"fred", cfg.series_id>>, resp, Try("fred", resp, FREDProcess(Body(resp))))

FREDConfigs == {[BaseConfig EXCEPT !.series_id = s] : s \in Opt("GDP")}

-----------------------------------------------------------------------------
(* ecb.ECBConnector.fetch *)

AnyJSONBodies == {EmptyDict, EmptyList, JNull}

ECBProcess(data) == Ok("ecb", data)

ECBConnector_fetch(cfg, resp) ==
    IF ~Truthy(cfg.dataflow) \/ ~Truthy(cfg.series_key)
    THEN NoCall(Fail("ecb", "dataflow and series_key required for ECB connector"))
    ELSE OneCall(<<"ecb", cfg.dataflow, cfg.series_key>>, resp,
                 Try("ecb", resp, ECBProcess(Body(resp))))

ECBConfigs ==
    {[BaseConfig EXCEPT !.dataflow = d, !.series_key = k] :
        d \in Opt("FM"), k \in Opt("M.U2.EUR")}

-----------------------------------------------------------------------------
(* worldbank.WorldBankConnector.fetch *)

WBMeta == JDict([page |-> JNum(1000)])

WorldBankBodies ==
    {JList(<<WBMeta, JList(<<JDict([date |-> JStr(<<"2","0","2","3">>)])>>)>>),
     JList(<<WBMeta, JNull>>),
     JList(<<WBMeta>>),
     EmptyDict, JNull}

WorldBankProcess(data) ==
    IF data.t # "list" THEN Fail("worldbank", "Unexpected World Bank response format")
    ELSE IF Len(data.l) < 2 THEN Fail("worldbank", "Unexpected World Bank response format")
    ELSE Ok("worldbank", IF JTruthy(data.l[2]) THEN data.l[2] ELSE EmptyList)

\* World Bank fetch that asks a second time when the first answer is no
\* usable envelope.
WorldBankConnector_fetch_again(cfg, resp) ==
    IF ~Truthy(cfg.indicator)
    THEN NoCall(Fail("worldbank", "indicator required for World Bank connector"))
    ELSE LET req == <<"worldbank", Or(cfg.country, "WLD"), cfg.indicator>>
             out == Try("worldbank", resp, WorldBankProcess(Body(resp)))
         IN  IF out.kind = "return" /\ ~out.result.success /\ resp.kind = "http"
             THEN [log |-> <<Exchange(req, resp), Exchange(req, resp)>>, out |-> out]
             ELSE OneCall(req, resp, out)

WorldBankConnector_fetch(cfg, resp) ==
    IF ~Truthy(cfg.indicator)
    THEN NoCall(Fail("worldbank", "indicator required for World Bank connector"))
    ELSE OneCall(<<"worldbank", Or(cfg.country, "WLD"), cfg.indicator>>, resp,
                 Try("worldbank", resp, WorldBankProcess(Body(resp))))

WorldBankConfigs ==
    {[BaseConfig EXCEPT !.indicator = i, !.country = c] :
        i \in Opt("NY.GDP.MKTP.CD"), c \in Opt("USA")}

-----------------------------------------------------------------------------
(* imf.IMFConnector.fetch *)

IMFBodies ==
    {JDict([values |-> EmptyDict]), JDict([api |-> EmptyDict]), EmptyList, JNull}

IMFProcess(data) ==
    IF data.t \in {"null", "num"} THEN Raise("TypeError")
    ELSE IF Has(data, "values") THEN Ok("imf", data.d.values)
    ELSE IF data.t = "dict" THEN Fail("imf", "Unexpected response format")
    ELSE Raise("AttributeError")

IMFConnector_fetch(cfg, resp) ==
    IF ~Truthy(cfg.indicator)
    THEN NoCall(Fail("imf", "indicator required for IMF connector"))
    ELSE OneCall(<<"imf", cfg.indicator, Or(cfg.country, "CHN")>>, resp,
                 Try("imf", resp, IMFProcess(Body(resp))))

IMFConfigs ==
    {[BaseConfig EXCEPT !.indicator = i, !.country = c] :
        i \in Opt("NGDP_RPCH"), c \in Opt("USA")}

-----------------------------------------------------------------------------
(* oecd.OECDConnector.fetch *)

\* METRIC_MAP; the entry None ("global.dxy") is the empty tuple, which is
\* falsy like None.
METRIC_MAP ==
    [m \in {<<"us", "cpi_yoy">>, <<"us", "gdp_qoq">>, <<"global", "dxy">>} |->
        CASE m = <<"us", "cpi_yoy">> -> <<"PRICES_CPI", "USA.CPALTT01.GY.M">>
          [] m = <<"us", "gdp_qoq">> -> <<"QNA", "USA.B1_GE.GYSA.Q">>
          [] OTHER -> <<>>]

\* dict.get(key) on a mapping table: None (here <<>>) when there is no entry.
MapGet(table, key) == IF key \in DOMAIN table THEN table[key] ELSE <<>>

OECDProcess(data) == Ok("oecd", data)

OECDConnector_fetch(cfg, resp) ==
    LET mapping == MapGet(METRIC_MAP, cfg.metric_id)
        dataflow == Or(cfg.dataflow, IF mapping # <<>> THEN mapping[1] ELSE None)
        series_key == Or(cfg.series_key, IF mapping # <<>> THEN mapping[2] ELSE None)
    IN  IF ~Truthy(dataflow) \/ ~Truthy(series_key)
        THEN NoCall(Fail("oecd", "No OECD mapping for metric"))
        ELSE OneCall(<<"oecd", dataflow, series_key>>, resp,
                     Try("oecd", resp, OECDProcess(Body(resp))))

OECDConfigs ==
    {[BaseConfig EXCEPT !.metric_id = m, !.dataflow = d, !.series_key = k] :
        m \in {<<"us", "cpi_yoy">>, <<"global", "dxy">>, <<"jp", "tankan">>},
        d \in {None, "MEI"}, k \in {None, "JPN.X"}}

-----------------------------------------------------------------------------
(* estat_dashboard.EStatDashboardConnector.fetch *)

EStatEnvelope(result, rest) ==
    JDict([GET_STATS |-> JDict([RESULT |-> result, STATISTICAL_DATA |-> rest])])

EStatData(objs) == JDict([DATA_INF |-> JDict([DATA_OBJ |-> objs])])

EStatBodies ==
    {EStatEnvelope(JDict([status |-> JStr(<<"0">>)]),
                   EStatData(JList(<<JDict([VALUE |-> EmptyDict])>>))),
     EStatEnvelope(JDict([status |-> JStr(<<"0">>)]), EStatData(EmptyList)),
     EStatEnvelope(JDict([status |-> JStr(<<"1","0","0">>)]), EmptyDict),
     EStatEnvelope(JDict([status |-> JNum(0)]), EmptyDict),
     JDict([GET_STATS |-> JNull]),
     EmptyDict, EmptyList, JNull}

\* a.get(k1, {}).get(k2, {})...: AttributeError as soon as a link is no dict.
RECURSIVE GetPath(_, _, _)
GetPath(j, keys, last_default) ==
    IF j.t # "dict" THEN Absent
    ELSE IF keys = <<>> THEN j
    ELSE LET dflt == IF Len(keys) = 1 THEN last_default ELSE EmptyDict
         IN  IF Len(keys) = 1 THEN Get(j, keys[1], dflt)
             ELSE GetPath(Get(j, keys[1], dflt), Tail(keys), last_default)

EStatProcess(data) ==
    LET res == GetPath(data, <<"GET_STATS", "RESULT">>, EmptyDict)
        objs == GetPath(data, <<"GET_STATS", "STATISTICAL_DATA", "DATA_INF", "DATA_OBJ">>,
                        EmptyList)
    IN  IF res = Absent \/ res.t # "dict" THEN Raise("AttributeError")
        ELSE IF Get(res, "status", JNull) # JStr(<<"0">>)
        THEN Fail("estat_dashboard", "e-Stat API error")
        ELSE IF objs = Absent THEN Raise("AttributeError")
        ELSE IF ~JTruthy(objs) THEN Fail("estat_dashboard", "No data returned from e-Stat API")
        ELSE Ok("estat_dashboard", objs)

EStatDashboardConnector_fetch(cfg, resp) ==
    IF ~Truthy(cfg.indicator_code)
    THEN NoCall(Fail("estat_dashboard",
                     "indicator_code required for e-Stat Dashboard connector"))
    ELSE OneCall(<<"estat_dashboard", cfg.indicator_code>>, resp,
                 Try("estat_dashboard", resp, EStatProcess(Body(resp))))

EStatConfigs ==
    {[BaseConfig EXCEPT !.indicator_code = c] : c \in Opt("0301010000020020010")}

-----------------------------------------------------------------------------
(* dbnomics.DBnomicsConnector.fetch *)

DBnomicsDoc == JDict([period |-> EmptyList, value |-> EmptyList])

DBnomicsBodies ==
    {JDict([series |-> JDict([docs |-> JList(<<DBnomicsDoc>>)])]),
     JDict([series |-> JDict([docs |-> EmptyList])]),
     JDict([series |-> EmptyDict]),
     JDict([series |-> EmptyList]),
     JDict([series |-> JDict([docs |-> JDict([a |-> DBnomicsDoc])])]),
     JDict([errors |-> EmptyList]),
     EmptyList, JNull}

DBnomicsProcess(data) ==
    IF data.t \in {"null", "num"} THEN Raise("TypeError")
    ELSE IF ~Has(data, "series") THEN Fail("dbnomics", "No series data in response")
    ELSE LET series == data.d.series
         IN  IF series.t # "dict" THEN Raise("AttributeError")
             ELSE LET docs == Get(series, "docs", JNull)
                  IN  IF ~JTruthy(docs) THEN Fail("dbnomics", "No series data in response")
                      ELSE IF docs.t = "list" THEN Ok("dbnomics", docs.l[1])
                      ELSE IF docs.t = "dict" THEN Raise("KeyError")
                      ELSE IF docs.t = "str" THEN Ok("dbnomics", JStr(<<docs.s[1]>>))
                      ELSE Raise("TypeError")

\* series_id, else provider/dataset/series when all three are set.
DBnomicsSeriesPath(cfg) ==
    IF Truthy(cfg.series_id) THEN <<cfg.series_id>>
    ELSE IF Truthy(cfg.provider) /\ Truthy(cfg.dataset) /\ Truthy(cfg.series)
    THEN <<cfg.provider, cfg.dataset, cfg.series>>
    ELSE <<>>

DBnomicsConnector_fetch(cfg, resp) ==
    LET series_path == DBnomicsSeriesPath(cfg)
    IN  IF series_path = <<>>
        THEN NoCall(Fail("dbnomics",
            "series_id (format: provider/dataset/series) required for DBnomics connector"))
        ELSE OneCall(<<"dbnomics">> \o series_path, resp,
                     Try("dbnomics", resp, DBnomicsProcess(Body(resp))))

DBnomicsConfigs ==
    {[BaseConfig EXCEPT !.series_id = s, !.provider = p, !.dataset = d, !.series = x] :
        s \in Opt("ISM/pmi/pm"), p \in {None, "ISM"}, d \in {None, "pmi"},
        x \in {None, "pm"}}

-----------------------------------------------------------------------------
(* coingecko.CoinGeckoConnector.fetch *)

COIN_MAP ==
    [m \in {<<"crypto", "bitcoin">>, <<"crypto", "ethereum">>} |->
        IF m = <<"crypto", "bitcoin">> THEN <<"bitcoin">> ELSE <<"ethereum">>]

CoinGeckoProcess(data) == Ok("coingecko", data)

\* A coin id that falls back to a fixed coin when the table has no entry.
CoinGeckoCoinId_default(cfg) ==
    LET coin_id == MapGet(COIN_MAP, cfg.metric_id)
    IN  IF coin_id # <<>> THEN coin_id[1] ELSE "bitcoin"

\* COIN_MAP.get(metric_id), else series_id, else the last component of metric_id.
CoinGeckoCoinId(cfg) ==
    LET coin_id == MapGet(COIN_MAP, cfg.metric_id)
    IN  IF coin_id # <<>> THEN coin_id[1]
        ELSE Or(cfg.series_id, cfg.metric_id[Len(cfg.metric_id)])

CoinGeckoConnector_fetch(cfg, resp) ==
    OneCall(<<"coingecko", CoinGeckoCoinId(cfg)>>, resp,
            Try("coingecko", resp, CoinGeckoProcess(Body(resp))))

CoinGeckoConfigs ==
    {[BaseConfig EXCEPT !.metric_id = m, !.series_id = s] :
        m \in {<<"crypto", "bitcoin">>, <<"crypto", "solana">>}, s \in Opt("dogecoin")}

-----------------------------------------------------------------------------
(* yahoo.YahooFinanceConnector.fetch *)

SYMBOL_MAP ==
    [m \in {<<"global", "brent">>, <<"global", "dxy">>} |->
        IF m = <<"global", "brent">> THEN <<"BZ=F">> ELSE <<"DX-Y.NYB">>]

YahooProcess(data) == Ok("yahoo", data)

\* SYMBOL_MAP.get(metric_id), else series_id, else metric_id itself.
YahooSymbol(cfg) ==
    LET symbol == MapGet(SYMBOL_MAP, cfg.metric_id)
    IN  IF symbol # <<>> THEN symbol
        ELSE IF Truthy(cfg.series_id) THEN <<cfg.series_id>>
        ELSE cfg.metric_id

YahooFinanceConnector_fetch(cfg, resp) ==
    OneCall(<<"yahoo">> \o YahooSymbol(cfg), resp, Try("yahoo", resp, YahooProcess(Body(resp))))

YahooConfigs ==
    {[BaseConfig EXCEPT !.metric_id = m, !.series_id = s] :
        m \in {<<"global", "brent">>, <<"global", "copper">>}, s \in Opt("HG=F")}

-----------------------------------------------------------------------------
(* vastai.VastAIConnector.fetch *)

VastAIBodies ==
    {JDict([offers |-> EmptyList]), EmptyDict, EmptyList, JNull}

VastAIProcess(gpu_filter, data) ==
    IF data.t # "dict" THEN Raise("AttributeError")
    ELSE Ok("vastai", JDict([offers |-> Get(data, "offers", EmptyList),
                             gpu_model |-> CStr(gpu_filter)]))

\* Vast.ai fetch whose 401 fallback result also carries the status as its error.
VastAIConnector_fetch_fallback_error(api_key, cfg, resp) ==
    LET gpu_filter == Or(cfg.series_id, "H100_80GB")
        out == IF resp.kind = "error" THEN Fail("vastai", resp.msg)
               ELSE IF resp.status = 401
               THEN Return(FetchResult(TRUE,
                        JDict([fallback |-> JBool(TRUE), gpu_model |-> CStr(gpu_filter)]),
                        HTTPErrorMsg(401), "vastai"))
               ELSE IF resp.status >= 400 THEN Fail("vastai", HTTPErrorMsg(resp.status))
               ELSE IF resp.body.t = "notjson" THEN Fail("vastai", JSONDecodeErrorMsg)
               ELSE VastAIProcess(gpu_filter, resp.body)
    IN  OneCall(<<"vastai", IF Truthy(api_key) THEN "Bearer" ELSE "anonymous">>, resp, out)

\* api_key is the instance's key (None without VASTAI_API_KEY).
VastAIConnector_fetch(api_key, cfg, resp) ==
    LET gpu_filter == Or(cfg.series_id, "H100_80GB")
        out == IF resp.kind = "error" THEN Fail("vastai", resp.msg)
               ELSE IF resp.status = 401
               THEN Ok("vastai", JDict([fallback |-> JBool(TRUE), gpu_model |-> CStr(gpu_filter)]))
               ELSE IF resp.status >= 400 THEN Fail("vastai", HTTPErrorMsg(resp.status))
               ELSE IF resp.body.t = "notjson" THEN Fail("vastai", JSONDecodeErrorMsg)
               ELSE VastAIProcess(gpu_filter, resp.body)
    IN  OneCall(<<"vastai", IF Truthy(api_key) THEN "Bearer" ELSE "anonymous">>, resp, out)

VastAIConfigs == {[BaseConfig EXCEPT !.series_id = s] : s \in Opt("RTX_4090")}

-----------------------------------------------------------------------------
(* huggingface.HuggingFaceConnector.fetch *)

SAMPLE_OFFSETS == <<0, 1000, 2000, 3000, 4000>>

\* re.search(r">([^<]+)</a>", html).group(1), or html when there is no match:
\* the leftmost ">" followed by a non-empty run without "<" and then "</a>".
AnchorEnd(s, i) ==
    LET k == CHOOSE k \in (i + 1)..(Len(s) + 1) :
                 /\ k = Len(s) + 1 \/ s[k] = "<"
                 /\ \A j \in (i + 1)..(k - 1) : s[j] # "<"
    IN  IF k > i + 1 /\ k + 3 <= Len(s) /\ SubSeq(s, k, k + 3) = <<"<", "/", "a", ">">>
        THEN k ELSE 0

ModelName(html) ==
    LET starts == {i \in 1..Len(html) : html[i] = ">" /\ AnchorEnd(html, i) # 0}
    IN  IF starts = {} THEN html
        ELSE LET i == CHOOSE i \in starts : \A j \in starts : i <= j
             IN  SubSeq(html, i + 1, AnchorEnd(html, i) - 1)

HFRow(model, score) == JDict([row |-> JDict([Model |-> model, Average |-> score])])

HFAnchor(name) == JStr(<<"<", "a", ">">> \o name \o <<"<", "/", "a", ">">>)

HFBodies ==
    {JDict([rows |-> JList(<<HFRow(HFAnchor(<<"m", "1">>), JNum(70500))>>)]),
     JDict([rows |-> JList(<<HFRow(JStr(<<"m", "2">>), JNum(50000)),
                            HFRow(HFAnchor(<<"m", "3">>), JStr(<<"9", "0">>)),
                            HFRow(JStr(<<>>), JNum(99000)),
                            HFRow(HFAnchor(<<"m", "4">>), JNum(0))>>)]),
     JDict([rows |-> JList(<<HFRow(JStr(<<"m", "5">>), JStr(<<"n", "/", "a">>))>>)]),
     JDict([rows |-> JList(<<HFRow(JNull, JNum(10000))>>)]),
     EmptyDict, EmptyList}

HFResponses ==
    {ErrorResponse(m) : m \in TransportErrors}
    \cup {HttpResponse(s, NotJSON) : s \in {401, 500}}
    \cup {HttpResponse(200, b) : b \in HFBodies \cup {NotJSON}}

\* One row of a 200 body: the models list after it, or the exception raised.
HFAddRow(all_models, row_data) ==
    IF row_data.t # "dict" THEN Raise("AttributeError")
    ELSE LET row == Get(row_data, "row", EmptyDict)
         IN  IF row.t # "dict" THEN Raise("AttributeError")
             ELSE LET model_html == Get(row, "Model", JStr(<<>>))
                      avg_score == Get(row, "Average", JNum(0))
                  IN  IF model_html.t # "str" THEN Raise("TypeError")
                      ELSE LET name == ModelName(model_html.s)
                           IN  IF ~(JTruthy(avg_score) /\ name # <<>>) THEN Return(all_models)
                               ELSE IF avg_score.t = "num"
                               THEN Return(Append(all_models,
                                        [name |-> name, score |-> avg_score.n]))
                               ELSE IF avg_score.t # "str" THEN Raise("TypeError")
                               ELSE IF ~FloatOK(avg_score.s) THEN Raise("ValueError")
                               ELSE Return(Append(all_models,
                                        [name |-> name, score |-> Float(avg_score.s)]))

RECURSIVE HFAddRows(_, _)
HFAddRows(all_models, rows) ==
    IF rows = <<>> THEN Return(all_models)
    ELSE LET r == HFAddRow(all_models, rows[1])
         IN  IF r.kind = "raise" THEN r ELSE HFAddRows(r.result, Tail(rows))

\* list.sort(key=score, reverse=True): stable, by insertion.
RECURSIVE SortByScoreDesc(_)
SortByScoreDesc(ms) ==
    IF ms = <<>> THEN <<>>
    ELSE LET rest == SortByScoreDesc(SubSeq(ms, 1, Len(ms) - 1))
             x == ms[Len(ms)]
             k == Cardinality({i \in 1..Len(rest) : rest[i].score >= x.score})
         IN  SubSeq(rest, 1, k) \o <<x>> \o SubSeq(rest, k + 1, Len(rest))

\* The loop body with the try inside the loop: a failed request is skipped
\* and the next offset is requested.
HFStep_skip_failed(all_models, resp) ==
    IF resp.kind = "error" THEN [stop |-> FALSE, models |-> all_models]
    ELSE IF resp.status # 200 THEN [stop |-> FALSE, models |-> all_models]
    ELSE IF resp.body.t = "notjson"
    THEN [stop |-> TRUE, out |-> Fail("huggingface", JSONDecodeErrorMsg)]
    ELSE IF resp.body.t # "dict" THEN [stop |-> TRUE, out |-> Raise("AttributeError")]
    ELSE LET rows == Get(resp.body, "rows", EmptyList)
             r == IF rows.t = "list" THEN HFAddRows(all_models, rows.l)
                  ELSE Raise("TypeError")
         IN  IF r.kind = "raise" THEN [stop |-> TRUE, out |-> r]
             ELSE [stop |-> FALSE, models |-> r.result]

\* The body of the loop for one offset, the response being resp: the outcome
\* that ends the fetch, or the models to go on with.
HFStep(all_models, resp) ==
    IF resp.kind = "error" THEN [stop |-> TRUE, out |-> Fail("huggingface", resp.msg)]
    ELSE IF resp.status # 200 THEN [stop |-> FALSE, models |-> all_models]
    ELSE IF resp.body.t = "notjson"
    THEN [stop |-> TRUE, out |-> Fail("huggingface", JSONDecodeErrorMsg)]
    ELSE IF resp.body.t # "dict" THEN [stop |-> TRUE, out |-> Raise("AttributeError")]
    ELSE LET rows == Get(resp.body, "rows", EmptyList)
             r == IF rows.t = "list" THEN HFAddRows(all_models, rows.l)
                  ELSE Raise("TypeError")
         IN  IF r.kind = "raise" THEN [stop |-> TRUE, out |-> r]
             ELSE [stop |-> FALSE, models |-> r.result]

\* After the loop.
HFFinish(all_models) ==
    IF all_models # <<>>
    THEN LET sorted == SortByScoreDesc(all_models)
         IN  Ok("huggingface",
                JDict([top_models |-> JList(SubSeq(sorted, 1, IF Len(sorted) < 10 THEN Len(sorted) ELSE 10)),
                       top_score |-> JNum(sorted[1].score),
                       top_model |-> JStr(sorted[1].name),
                       sample_size |-> JNum(Unit * Len(sorted))]))
    ELSE Fail("huggingface", "No leaderboard data found in HuggingFace dataset")

\* Every run of fetch from offset number i on, over the outcomes of the
\* requests it makes.
RECURSIVE HFRuns(_, _, _)
HFRuns(i, all_models, log) ==
    IF i > Len(SAMPLE_OFFSETS) THEN {[log |-> log, out |-> HFFinish(all_models)]}
    ELSE UNION {
        LET step == HFStep(all_models, resp)
            log2 == Append(log, Exchange(<<"huggingface", SAMPLE_OFFSETS[i]>>, resp))
        IN  IF step.stop THEN {[log |-> log2, out |-> step.out]}
            ELSE HFRuns(i + 1, step.models, log2)
        : resp \in HFResponses}

HuggingFaceConnector_fetch(cfg) == HFRuns(1, <<>>, <<>>)

-----------------------------------------------------------------------------
(* storage.models.Observation and what normalize shares *)

\* obs_date is whatever the connector stores there: a JSON value, a str
\* being JStr of its characters.  retrieved_at (the time of the call) is
\* not modelled.
Observation(metric_id, obs_date, value, unit, source) ==
    [metric_id |-> metric_id, obs_date |-> obs_date, value |-> value,
     unit |-> unit, source |-> source]

Abs(n) == IF n < 0 THEN 0 - n ELSE n

Pow10(k) == IF k = 0 THEN 1 ELSE IF k = 1 THEN 10 ELSE IF k = 2 THEN 100 ELSE 1000

\* n / q rounded to the nearest integer, ties to the even one (Python round).
RoundHalfEven(n, q) ==
    LET a == Abs(n)
        lo == a \div q
        r == a % q
        up == IF 2 * r > q THEN 1
              ELSE IF 2 * r < q THEN 0
              ELSE lo % 2
    IN  IF n < 0 THEN 0 - (lo + up) ELSE lo + up

\* round(value * multiplier, decimals), value and multiplier in thousandths,
\* decimals in 0..3.
Scaled(value, cfg) ==
    LET q == Unit * Pow10(3 - cfg.decimals)
    IN  RoundHalfEven(value * cfg.multiplier, q) * Pow10(3 - cfg.decimals)

\* The characters of the model's strings in code-point order: ord().
Alphabet ==
    <<"-", "/", "0", "1", "2", "3", "4", "5", "6", "7", "8", "9",
      "C", "F", "M", "Q", "W", "X", "Y", "a", "b", "c">>

Ord(c) == CHOOSE i \in 1..Len(Alphabet) : Alphabet[i] = c

\* a < b for str.
RECURSIVE StrLess(_, _)
StrLess(a, b) ==
    IF b = <<>> THEN FALSE
    ELSE IF a = <<>> THEN TRUE
    ELSE IF a[1] = b[1] THEN StrLess(Tail(a), Tail(b))
    ELSE Ord(a[1]) < Ord(b[1])

\* observations.sort(key=lambda x: x.obs_date, reverse=True): the sort is
\* stable, so equal dates keep their order.
RECURSIVE SortByDateDesc(_)
SortByDateDesc(obs) ==
    IF obs = <<>> THEN <<>>
    ELSE LET rest == SortByDateDesc(SubSeq(obs, 1, Len(obs) - 1))
             x == obs[Len(obs)]
             k == Cardinality({i \in 1..Len(rest) :
                                  ~StrLess(rest[i].obs_date.s, x.obs_date.s)})
         IN  SubSeq(rest, 1, k) \o <<x>> \o SubSeq(rest, k + 1, Len(rest))

\* `sub in s` for str.
Contains(s, sub) ==
    \E i \in 1..(Len(s) - Len(sub) + 1) : SubSeq(s, i, i + Len(sub) - 1) = sub

\* s.split(sep): the pieces of s between the occurrences of sep, left to right.
RECURSIVE Split(_, _)
Split(s, sep) ==
    IF ~Contains(s, sep) THEN <<s>>
    ELSE LET i == CHOOSE i \in 1..(Len(s) - Len(sep) + 1) :
                      /\ SubSeq(s, i, i + Len(sep) - 1) = sep
                      /\ \A j \in 1..(i - 1) : SubSeq(s, j, j + Len(sep) - 1) # sep
         IN  <<SubSeq(s, 1, i - 1)>> \o Split(SubSeq(s, i + Len(sep), Len(s)), sep)

\* s[:n]
Prefix(s, n) == SubSeq(s, 1, IF n < Len(s) THEN n ELSE Len(s))

\* The quarter tables {"1": "01", "2": "04", "3": "07", "4": "10"}.
QuarterKeys == {<<"1">>, <<"2">>, <<"3">>, <<"4">>}

QuarterMonth(q) ==
    CASE q = <<"1">> -> <<"0", "1">>
      [] q = <<"2">> -> <<"0", "4">>
      [] q = <<"3">> -> <<"0", "7">>
      [] OTHER -> <<"1", "0">>

Dash == <<"-">>
Jan1 == <<"-", "0", "1", "-", "0", "1">>
Day1 == <<"-", "0", "1">>

\* The outcome of a normalize that ran to its return statement.
Normalized(obs) == Return(obs)

\* What the body of a normalize loop does with one point.
Skip == [k |-> "skip"]
Emit(obs) == [k |-> "emit", obs |-> obs]
Throw(exc) == [k |-> "raise", exc |-> exc]

\* The loop over the points, steps[i] being what the body does with point i.
\* An exception of a class in `caught` is one the try around the loop
\* handles: the loop ends and the observations collected so far remain.
\* Any other exception leaves normalize.
RECURSIVE NormLoop(_, _, _)
NormLoop(caught, steps, observations) ==
    IF steps = <<>> THEN Normalized(observations)
    ELSE LET st == steps[1]
         IN  IF st.k = "skip" THEN NormLoop(caught, Tail(steps), observations)
             ELSE IF st.k = "emit"
             THEN NormLoop(caught, Tail(steps), Append(observations, st.obs))
             ELSE IF st.exc \in caught THEN Normalized(observations)
             ELSE Raise(st.exc)

\* The trailing sort of a normalize.
Sorted(outcome) ==
    IF outcome.kind = "return" THEN Normalized(SortByDateDesc(outcome.result))
    ELSE outcome

\* float(x) of a JSON value: the number, or the exception.
ToFloat(x) ==
    CASE x.t = "num" -> [ok |-> TRUE, v |-> x.n]
      [] x.t = "str" -> IF FloatOK(x.s) THEN [ok |-> TRUE, v |-> Float(x.s)]
                        ELSE [ok |-> FALSE, exc |-> "ValueError"]
      [] OTHER -> [ok |-> FALSE, exc |-> "TypeError"]

\* A dict of up to two keys; a key whose value is Absent is not in it.
Dict2(k1, v1, k2, v2) ==
    LET keys == (IF v1 = Absent THEN {} ELSE {k1}) \cup (IF v2 = Absent THEN {} ELSE {k2})
    IN  JDict([k \in keys |-> IF k = k1 THEN v1 ELSE v2])

-----------------------------------------------------------------------------
(* fred.FREDConnector.normalize *)

FREDPoint(cfg, item) ==
    IF item.t # "dict" THEN Throw("AttributeError")
    ELSE LET value_str == Get(item, "value", JStr(<<".">>))
             f == ToFloat(value_str)
         IN  IF value_str = JStr(<<".">>) \/ ~JTruthy(value_str) THEN Skip
             ELSE IF ~f.ok
             THEN (IF f.exc = "ValueError" THEN Skip ELSE Throw(f.exc))
             ELSE IF ~Has(item, "date") THEN Throw("KeyError")
             ELSE Emit(Observation(cfg.metric_id, item.d.date, Scaled(f.v, cfg),
                                   cfg.unit, "fred"))

\* The loop walking the payload from its last entry to its first.
FREDConnector_normalize_reversed(cfg, raw_data) ==
    NormLoop({}, [i \in 1..Len(raw_data) |->
                     FREDPoint(cfg, raw_data[Len(raw_data) + 1 - i])], <<>>)

FREDConnector_normalize(cfg, raw_data) ==
    NormLoop({}, [i \in 1..Len(raw_data) |-> FREDPoint(cfg, raw_data[i])], <<>>)

-----------------------------------------------------------------------------
(* worldbank.WorldBankConnector.normalize *)

\* The loop body without `if value is None: continue`.
WorldBankPoint_no_null_skip(cfg, item) ==
    IF item.t = "null" THEN Skip
    ELSE IF item.t # "dict" THEN Throw("AttributeError")
    ELSE LET value == Get(item, "value", JNull)
             date_str == Get(item, "date", JStr(<<>>))
             f == ToFloat(value)
         IN  IF date_str.t # "str" THEN Throw("TypeError")
             ELSE IF ~f.ok THEN Throw(f.exc)
             ELSE Emit(Observation(cfg.metric_id,
                          IF Len(date_str.s) = 4 THEN JStr(date_str.s \o Jan1)
                          ELSE date_str,
                          Scaled(f.v, cfg), cfg.unit, "worldbank"))

WorldBankPoint(cfg, item) ==
    IF item.t = "null" THEN Skip
    ELSE IF item.t # "dict" THEN Throw("AttributeError")
    ELSE LET value == Get(item, "value", JNull)
             date_str == Get(item, "date", JStr(<<>>))
             f == ToFloat(value)
         IN  IF value.t = "null" THEN Skip
             ELSE IF date_str.t # "str" THEN Throw("TypeError")
             ELSE IF ~f.ok THEN Throw(f.exc)
             ELSE Emit(Observation(cfg.metric_id,
                          IF Len(date_str.s) = 4 THEN JStr(date_str.s \o Jan1)
                          ELSE date_str,
                          Scaled(f.v, cfg), cfg.unit, "worldbank"))

\* normalize without the trailing observations.sort.
WorldBankConnector_normalize_unsorted(cfg, raw_data) ==
    NormLoop({}, [i \in 1..Len(raw_data) |-> WorldBankPoint(cfg, raw_data[i])], <<>>)

WorldBankConnector_normalize(cfg, raw_data) ==
    Sorted(NormLoop({}, [i \in 1..Len(raw_data) |-> WorldBankPoint(cfg, raw_data[i])],
                    <<>>))

-----------------------------------------------------------------------------
(* ecb.ECBConnector._parse_time_period, dbnomics.DBnomicsConnector._parse_period *)

\* The date string, or the exception raised.
ECBConnector_parse_time_period(period) ==
    IF period.t # "str" THEN [ok |-> FALSE, exc |-> "TypeError"]
    ELSE IF Contains(period.s, <<"-", "Q">>)
    THEN LET parts == Split(period.s, <<"-", "Q">>)
         IN  IF Len(parts) # 2 THEN [ok |-> FALSE, exc |-> "ValueError"]
             ELSE IF parts[2] \notin QuarterKeys THEN [ok |-> FALSE, exc |-> "KeyError"]
             ELSE [ok |-> TRUE, v |-> JStr(parts[1] \o Dash \o QuarterMonth(parts[2]) \o Day1)]
    ELSE IF Len(period.s) = 7 THEN [ok |-> TRUE, v |-> JStr(period.s \o Day1)]
    ELSE IF Len(period.s) = 4 THEN [ok |-> TRUE, v |-> JStr(period.s \o Jan1)]
    ELSE [ok |-> TRUE, v |-> period]

DBnomicsConnector_parse_period(period) == ECBConnector_parse_time_period(period)

-----------------------------------------------------------------------------
(* dbnomics.DBnomicsConnector.normalize *)

\* raw_data holds the lists "period" and "value".
DBnomicsPoint(cfg, period, value) ==
    LET f == ToFloat(value)
        d == DBnomicsConnector_parse_period(period)
    IN  IF value.t = "null" THEN Skip
        ELSE IF ~f.ok THEN Skip
        ELSE IF ~d.ok THEN Throw(d.exc)
        ELSE Emit(Observation(cfg.metric_id, d.v, Scaled(f.v, cfg), cfg.unit, "dbnomics"))

DBnomicsConnector_normalize(cfg, raw_data) ==
    LET periods == Get(raw_data, "period", EmptyList).l
        values == Get(raw_data, "value", EmptyList).l
    IN  IF Len(periods) # Len(values) THEN Normalized(<<>>)
        ELSE Sorted(NormLoop({},
                 [i \in 1..Len(periods) |-> DBnomicsPoint(cfg, periods[i], values[i])],
                 <<>>))

-----------------------------------------------------------------------------
(* ecb.ECBConnector.normalize *)

\* raw_data: time_values is the list of the TIME_PERIOD dimension's ids
\* (None for a value without "id"); obs is the first series' "observations"
\* dict as the list of its (key, value) items in order.
ECBPoint(cfg, time_values, idx_str, values) ==
    IF ~AllDigits(idx_str) \/ idx_str = <<>> THEN Throw("ValueError")
    ELSE IF IntOf(idx_str) >= Len(time_values) THEN Skip
    ELSE LET time_period == time_values[IntOf(idx_str) + 1]
             d == ECBConnector_parse_time_period(time_period)
         IN  IF ~JTruthy(values) THEN Skip
             ELSE IF values.t = "dict" THEN Throw("KeyError")
             ELSE IF values.t # "list" THEN Throw("TypeError")
             ELSE LET value == values.l[1]
                      f == ToFloat(value)
                  IN  IF value.t = "null" THEN Skip
                      ELSE IF ~d.ok THEN Throw(d.exc)
                      ELSE IF ~f.ok THEN Throw(f.exc)
                      ELSE Emit(Observation(cfg.metric_id, d.v, Scaled(f.v, cfg),
                                            cfg.unit, "ecb"))

ECBConnector_normalize(cfg, raw_data) ==
    IF raw_data.time_values = <<>> THEN Normalized(<<>>)
    ELSE Sorted(NormLoop({"KeyError", "IndexError", "TypeError"},
            [i \in 1..Len(raw_data.obs) |->
                ECBPoint(cfg, raw_data.time_values, raw_data.obs[i].key,
                         raw_data.obs[i].values)],
            <<>>))

-----------------------------------------------------------------------------
(* imf.IMFConnector.normalize *)

\* raw_data maps an indicator code to a dict from country code to the
\* country's dict, the latter as the list of its (key, value) items in order.
IMFPoint(cfg, year, value) ==
    LET f == ToFloat(value)
    IN  IF value.t = "null" THEN Skip
        ELSE IF ~f.ok THEN Throw(f.exc)
        ELSE Emit(Observation(cfg.metric_id, JStr(year \o Jan1), Scaled(f.v, cfg),
                              cfg.unit, "imf"))

\* normalize that reads config.country without the "CHN" default.
IMFConnector_normalize_no_default(cfg, raw_data) ==
    LET indicator_code == cfg.indicator
        country_code == cfg.country
    IN  IF indicator_code \notin DOMAIN raw_data THEN Normalized(<<>>)
        ELSE LET by_country == raw_data[indicator_code]
                 country_data == IF country_code \in DOMAIN by_country
                                 THEN by_country[country_code] ELSE <<>>
             IN  Sorted(NormLoop({"KeyError", "ValueError", "TypeError"},
                     [i \in 1..Len(country_data) |->
                         IMFPoint(cfg, country_data[i].key, country_data[i].value)],
                     <<>>))

IMFConnector_normalize(cfg, raw_data) ==
    LET indicator_code == cfg.indicator
        country_code == Or(cfg.country, "CHN")
    IN  IF indicator_code \notin DOMAIN raw_data THEN Normalized(<<>>)
        ELSE LET by_country == raw_data[indicator_code]
                 country_data == IF country_code \in DOMAIN by_country
                                 THEN by_country[country_code] ELSE <<>>
             IN  Sorted(NormLoop({"KeyError", "ValueError", "TypeError"},
                     [i \in 1..Len(country_data) |->
                         IMFPoint(cfg, country_data[i].key, country_data[i].value)],
                     <<>>))

-----------------------------------------------------------------------------
(* oecd.OECDConnector._parse_time_period, oecd.OECDConnector.normalize *)

\* The date string; "" for what it does not recognise.
OECDConnector_parse_time_period(period) ==
    IF ~JTruthy(period) THEN <<>>
    ELSE IF period.t # "str" THEN <<>>
    ELSE IF Len(period.s) = 7 /\ Contains(period.s, Dash) THEN period.s \o Day1
    ELSE IF Contains(period.s, <<"Q">>)
    THEN LET year == Prefix(period.s, 4)
             quarter == <<period.s[Len(period.s)]>>
             month == IF quarter \in QuarterKeys THEN QuarterMonth(quarter)
                      ELSE <<"0", "1">>
         IN  year \o Dash \o month \o Day1
    ELSE IF Len(period.s) = 4 /\ AllDigits(period.s) THEN period.s \o Jan1
    ELSE <<>>

\* str(i) for i >= 0.
RECURSIVE Str(_)
Str(i) == IF i < 10 THEN <<Alphabet[i + 3]>> ELSE Str(i \div 10) \o <<Alphabet[(i % 10) + 3]>>

\* raw_data: time_values is the list of the TIME_PERIOD dimension's value
\* ids; obs is the "observations" dict of the one series of the first
\* dataset, as the list of its (key, value) items in order.
OECDPoint(cfg, time_values, time_idx, values) ==
    IF ~JTruthy(values) THEN Skip
    ELSE IF values.t = "dict" THEN Throw("KeyError")
    ELSE IF values.t # "list" THEN Throw("TypeError")
    ELSE LET value == values.l[1]
             time_period ==
                 IF \E i \in 1..Len(time_values) : Str(i - 1) = time_idx
                 THEN time_values[CHOOSE i \in 1..Len(time_values) : Str(i - 1) = time_idx]
                 ELSE JStr(<<>>)
             obs_date == OECDConnector_parse_time_period(time_period)
             f == ToFloat(value)
         IN  IF value.t = "null" THEN Skip
             ELSE IF obs_date = <<>> THEN Skip
             ELSE IF ~f.ok THEN Throw(f.exc)
             ELSE Emit(Observation(cfg.metric_id, JStr(obs_date), Scaled(f.v, cfg),
                                   cfg.unit, "oecd"))

OECDConnector_normalize(cfg, raw_data) ==
    Sorted(NormLoop({"KeyError", "ValueError", "TypeError"},
        [i \in 1..Len(raw_data.obs) |->
            OECDPoint(cfg, raw_data.time_values, raw_data.obs[i].key,
                      raw_data.obs[i].values)],
        <<>>))

-----------------------------------------------------------------------------
(* estat_dashboard.EStatDashboardConnector._parse_time_period, .normalize *)

\* The date string ("" for none), or the exception raised.
EStatDashboardConnector_parse_time_period(period) ==
    IF ~JTruthy(period) THEN [ok |-> TRUE, v |-> <<>>]
    ELSE IF period.t # "str" THEN [ok |-> FALSE, exc |-> "TypeError"]
    ELSE IF Len(period.s) < 6 THEN [ok |-> TRUE, v |-> <<>>]
    ELSE LET year == Prefix(period.s, 4)
         IN  IF Contains(period.s, <<"M">>)
             THEN [ok |-> TRUE, v |-> year \o Dash \o SubSeq(period.s, 5, 6) \o Day1]
             ELSE IF Contains(period.s, <<"Q">>)
             THEN LET quarter == <<period.s[5]>>
                      month == IF quarter \in QuarterKeys THEN QuarterMonth(quarter)
                               ELSE <<"0", "1">>
                  IN  [ok |-> TRUE, v |-> year \o Dash \o month \o Day1]
             ELSE IF Contains(period.s, <<"C", "Y">>)
             THEN [ok |-> TRUE, v |-> year \o Jan1]
             ELSE IF Contains(period.s, <<"F", "Y">>)
             THEN [ok |-> TRUE, v |-> year \o <<"-", "0", "4", "-", "0", "1">>]
             ELSE [ok |-> TRUE, v |-> year \o Jan1]

EStatPoint(cfg, item) ==
    IF ~Has(item, "VALUE") THEN Skip
    ELSE LET value_obj == item.d["VALUE"]
         IN  IF value_obj.t # "dict" THEN Throw("AttributeError")
             ELSE LET value_str == Get(value_obj, "$", JStr(<<>>))
                      f == ToFloat(value_str)
                      d == EStatDashboardConnector_parse_time_period(
                               Get(value_obj, "@time", JStr(<<>>)))
                  IN  IF ~JTruthy(value_str) THEN Skip
                      ELSE IF ~f.ok THEN Skip
                      ELSE IF ~d.ok THEN Throw(d.exc)
                      ELSE IF d.v = <<>> THEN Skip
                      ELSE Emit(Observation(cfg.metric_id, JStr(d.v),
                                            Scaled(f.v, cfg), cfg.unit, "estat_dashboard"))

EStatDashboardConnector_normalize(cfg, raw_data) ==
    Sorted(NormLoop({}, [i \in 1..Len(raw_data) |-> EStatPoint(cfg, raw_data[i])], <<>>))

-----------------------------------------------------------------------------
(* yahoo.YahooFinanceConnector.normalize *)

JInt(i) == [t |-> "int", i |-> i]

\* The digits of n, zero-padded on the left to the given width.
Pad(n, width) ==
    LET d == Str(n)
    IN  [i \in 1..(width - Len(d)) |-> "0"] \o d

\* datetime.fromtimestamp(ts).strftime("%Y-%m-%d") where the local time is
\* utcoffset seconds ahead of UTC: the proleptic Gregorian date of the day
\* holding second ts + utcoffset of the epoch.
StrftimeDate(ts, utcoffset) ==
    LET z == ((ts + utcoffset) \div 86400) + 719468
        era == z \div 146097
        doe == z - era * 146097
        yoe == (doe - doe \div 1460 + doe \div 36524 - doe \div 146096) \div 365
        doy == doe - (365 * yoe + yoe \div 4 - yoe \div 100)
        mp == (5 * doy + 2) \div 153
        day == doy - ((153 * mp + 2) \div 5) + 1
        month == IF mp < 10 THEN mp + 3 ELSE mp - 9
        year == yoe + era * 400 + (IF month <= 2 THEN 1 ELSE 0)
    IN  Pad(year, 4) \o Dash \o Pad(month, 2) \o Dash \o Pad(day, 2)

\* raw_data: timestamps is chart.result[0].timestamp and closes is
\* chart.result[0].indicators.quote[0].close.
YahooPoint(cfg, utcoffset, ts, close) ==
    LET f == ToFloat(close)
    IN  IF close.t = "null" THEN Skip
        ELSE IF ts.t # "int" THEN Throw("TypeError")
        ELSE IF ~f.ok THEN Throw(f.exc)
        ELSE Emit(Observation(cfg.metric_id, JStr(StrftimeDate(ts.i, utcoffset)),
                              Scaled(f.v, cfg), cfg.unit, "yahoo"))

Min(a, b) == IF a < b THEN a ELSE b

YahooFinanceConnector_normalize(cfg, utcoffset, raw_data) ==
    Sorted(NormLoop({"KeyError", "ValueError", "TypeError"},
        [i \in 1..Min(Len(raw_data.timestamps), Len(raw_data.closes)) |->
            YahooPoint(cfg, utcoffset, raw_data.timestamps[i], raw_data.closes[i])],
        <<>>))

-----------------------------------------------------------------------------
(* The calls the orchestrator makes *)

-----------------------------------------------------------------------------
(* The payloads handed to normalize *)

\* The largest number of points in a payload.
MaxPoints == 2

\* The payloads of up to MaxPoints points drawn from a set of points.
Payloads(points) == UNION {[1..n -> points] : n \in 0..MaxPoints}

\* multiplier and decimals of the metric's configuration.
Scalings(cfg) ==
    {cfg, [cfg EXCEPT !.multiplier = 100 * Unit, !.decimals = 1, !.unit = "%"]}

NumberValues == {JNum(1500), JNum(2125)}

\* FRED observations: date and value are strings, "." marking a missing value.
FREDPoints ==
    {Dict2("date", d, "value", v) :
        d \in {JStr(<<"2", "0", "2", "4", "-", "0", "1", "-", "0", "1">>), JStr(<<"2", "0", "2", "4", "-", "0", "2", "-", "0", "1">>)},
        v \in {JStr(<<"1", ".", "5">>), JStr(<<"2", ".", "1", "2", "5">>), JStr(<<".">>), JStr(<<>>)}}
    \cup {Dict2("date", JStr(<<"2", "0", "2", "4", "-", "0", "1", "-", "0", "1">>), "value", v) :
            v \in {JStr(<<"a", "b", "c">>), JNull, Absent, EmptyList}}
    \cup {Dict2("date", d, "value", JStr(<<"1", ".", "5">>)) : d \in {JNull, Absent}}

WorldBankPoints ==
    {Dict2("date", d, "value", v) :
        d \in {JStr(<<"2", "0", "2", "4">>), JStr(<<"2", "0", "2", "3">>)}, v \in NumberValues \cup {JNull}}
    \cup {Dict2("date", JStr(<<"2", "0", "2", "4">>), "value", v) : v \in {JStr(<<"a", "b", "c">>), JStr(<<"1", ".", "5">>), EmptyList}}
    \cup {Dict2("date", d, "value", JNum(1500)) :
            d \in {JStr(<<"2", "0", "2", "4", "Q", "1">>), JStr(<<"2", "0">>), JNull, Absent}}
    \cup {JNull}

\* SDMX periods of ECB, DBnomics and OECD: month, quarter and year, then
\* what is none of them.
SDMXPeriods == {JStr(<<"2", "0", "2", "4", "-", "0", "1">>), JStr(<<"2", "0", "2", "4", "-", "Q", "2">>), JStr(<<"2", "0", "2", "3">>)}

BadSDMXPeriods == {JStr(<<"2", "0", "2", "4", "-", "Q", "5">>), JStr(<<"2", "0", "2", "4", "W", "0", "3">>), JNull}

DBnomicsPoints ==
    {[period |-> p, value |-> v] : p \in SDMXPeriods, v \in NumberValues \cup {JNull}}
    \cup {[period |-> JStr(<<"2", "0", "2", "4", "-", "0", "1">>), value |-> v] : v \in {JStr(<<"a", "b", "c">>), EmptyList}}
    \cup {[period |-> p, value |-> JNum(1500)] : p \in BadSDMXPeriods \cup {JStr(<<"2", "0", "2", "4", "-", "Q", "1", "-", "Q", "2">>)}}

DBnomicsPayload(pts) ==
    JDict([period |-> JList([i \in 1..Len(pts) |-> pts[i].period]),
           value |-> JList([i \in 1..Len(pts) |-> pts[i].value])])

\* An SDMX observation: the period at the observation's own position in the
\* time dimension unless `key` names another observation key.
SDMXPoints ==
    {[period |-> p, key |-> <<>>, values |-> v] :
        p \in SDMXPeriods,
        v \in {JList(<<JNum(1500)>>), JList(<<JNum(2125)>>), JList(<<JNull>>), EmptyList}}
    \cup {[period |-> JStr(<<"2", "0", "2", "4", "-", "0", "1">>), key |-> <<>>, values |-> v] :
            v \in {JList(<<JStr(<<"a", "b", "c">>)>>), JNum(1500)}}
    \cup {[period |-> p, key |-> <<>>, values |-> JList(<<JNum(1500)>>)] :
            p \in BadSDMXPeriods}
    \cup {[period |-> JStr(<<"2", "0", "2", "4", "-", "0", "1">>), key |-> k, values |-> JList(<<JNum(1500)>>)] :
            k \in {<<"9">>, <<"X">>}}

SDMXPayload(pts) ==
    [time_values |-> [i \in 1..Len(pts) |-> pts[i].period],
     obs |-> [i \in 1..Len(pts) |->
                 [key |-> IF pts[i].key = <<>> THEN Str(i - 1) ELSE pts[i].key,
                  values |-> pts[i].values]]]

IMFPoints ==
    {[key |-> y, value |-> v] :
        y \in {<<"2", "0", "2", "4">>, <<"2", "0", "2", "3">>}, v \in NumberValues \cup {JNull}}
    \cup {[key |-> <<"2", "0", "2", "4">>, value |-> v] : v \in {JStr(<<"a", "b", "c">>), EmptyList, JStr(<<"1", ".", "5">>)}}
    \cup {[key |-> <<"2", "0", "2", "4", "Q", "1">>, value |-> JNum(1500)]}

IMFPayload(country, pts) == [i \in {"NGDP_RPCH"} |-> [c \in {country} |-> pts]]

EStatValue(time, v) == JDict([k \in {"VALUE"} |-> Dict2("@time", time, "$", v)])

EStatPoints ==
    {EStatValue(p, v) :
        p \in {JStr(<<"2", "0", "2", "4", "1", "1", "M", "0", "0">>), JStr(<<"2", "0", "2", "4", "3", "Q", "0", "0">>), JStr(<<"2", "0", "2", "4", "C", "Y", "0", "0">>), JStr(<<"2", "0", "2", "4", "F", "Y", "0", "0">>)},
        v \in {JStr(<<"1", ".", "5">>), JStr(<<"2", ".", "1", "2", "5">>), JStr(<<>>)}}
    \cup {EStatValue(JStr(<<"2", "0", "2", "4", "1", "1", "M", "0", "0">>), v) : v \in {JStr(<<"a", "b", "c">>), Absent, JNum(1500)}}
    \cup {EStatValue(p, JStr(<<"1", ".", "5">>)) :
            p \in {JStr(<<"2", "0", "2", "4", "X", "X", "0", "0">>), JStr(<<"2", "0", "2", "4", "5", "Q", "0", "0">>), JStr(<<"2", "0", "2", "4", "1", "3", "M", "0", "0">>), JStr(<<"2", "0", "2", "4">>), JNum(2024 * Unit), Absent}}
    \cup {JDict([k \in {"VALUE"} |-> JNull]), JNull}

\* Yahoo: seconds since the epoch, the first second of 2024-01-01 and the
\* last of 2024-02-29 in UTC, and the close.
YahooPoints ==
    {[ts |-> t, close |-> c] :
        t \in {JInt(1704067200), JInt(1709251199)}, c \in NumberValues \cup {JNull}}
    \cup {[ts |-> JInt(1704067200), close |-> c] : c \in {JStr(<<"a", "b", "c">>), EmptyList}}
    \cup {[ts |-> JNull, close |-> JNum(1500)]}

YahooPayload(pts) ==
    [timestamps |-> [i \in 1..Len(pts) |-> pts[i].ts],
     closes |-> [i \in 1..Len(pts) |-> pts[i].close]]

\* The offsets of local time from UTC, in seconds.
UTCOffsets == {0 - 18000, 0, 32400}

NoOutcome == [kind |-> "none"]

Init ==
    /\ pc = "idle"
    /\ op = [fn |-> "none", conn |-> "none", api_key |-> None]
    /\ config = BaseConfig
    /\ raw = JNull
    /\ reqlog = <<>>
    /\ ret = NoOutcome

\* A fetch call ran to its end.
Fetched(conn, api_key, cfg, run) ==
    /\ pc' = "done"
    /\ op' = [fn |-> "fetch", conn |-> conn, api_key |-> api_key]
    /\ config' = cfg
    /\ raw' = JNull
    /\ reqlog' = run.log
    /\ ret' = run.out

FREDFetch ==
    /\ pc = "idle"
    /\ \E cfg \in FREDConfigs, resp \in Responses(FREDBodies) :
          Fetched("fred", "test_api_key", cfg, FREDConnector_fetch(cfg, resp))

ECBFetch ==
    /\ pc = "idle"
    /\ \E cfg \in ECBConfigs, resp \in Responses(AnyJSONBodies) :
          Fetched("ecb", None, cfg, ECBConnector_fetch(cfg, resp))

WorldBankFetch ==
    /\ pc = "idle"
    /\ \E cfg \in WorldBankConfigs, resp \in Responses(WorldBankBodies) :
          Fetched("worldbank", None, cfg, WorldBankConnector_fetch(cfg, resp))

IMFFetch ==
    /\ pc = "idle"
    /\ \E cfg \in IMFConfigs, resp \in Responses(IMFBodies) :
          Fetched("imf", None, cfg, IMFConnector_fetch(cfg, resp))

OECDFetch ==
    /\ pc = "idle"
    /\ \E cfg \in OECDConfigs, resp \in Responses(AnyJSONBodies) :
          Fetched("oecd", None, cfg, OECDConnector_fetch(cfg, resp))

EStatFetch ==
    /\ pc = "idle"
    /\ \E cfg \in EStatConfigs, resp \in Responses(EStatBodies) :
          Fetched("estat_dashboard", None, cfg, EStatDashboardConnector_fetch(cfg, resp))

DBnomicsFetch ==
    /\ pc = "idle"
    /\ \E cfg \in DBnomicsConfigs, resp \in Responses(DBnomicsBodies) :
          Fetched("dbnomics", None, cfg, DBnomicsConnector_fetch(cfg, resp))

CoinGeckoFetch ==
    /\ pc = "idle"
    /\ \E cfg \in CoinGeckoConfigs, resp \in Responses(AnyJSONBodies) :
          Fetched("coingecko", None, cfg, CoinGeckoConnector_fetch(cfg, resp))

YahooFetch ==
    /\ pc = "idle"
    /\ \E cfg \in YahooConfigs, resp \in Responses(AnyJSONBodies) :
          Fetched("yahoo", None, cfg, YahooFinanceConnector_fetch(cfg, resp))

HuggingFaceFetch ==
    /\ pc = "idle"
    /\ \E run \in HuggingFaceConnector_fetch(BaseConfig) :
          Fetched("huggingface", None, BaseConfig, run)

VastAIFetch ==
    /\ pc = "idle"
    /\ \E api_key \in {None, "key"}, cfg \in VastAIConfigs,
          resp \in Responses(VastAIBodies) :
          Fetched("vastai", api_key, cfg, VastAIConnector_fetch(api_key, cfg, resp))

\* A normalize call ran to its end.
Normalized_call(conn, utcoffset, cfg, raw_data, outcome) ==
    /\ pc' = "done"
    /\ op' = [fn |-> "normalize", conn |-> conn, api_key |-> None, utcoffset |-> utcoffset]
    /\ config' = cfg
    /\ raw' = raw_data
    /\ reqlog' = <<>>
    /\ ret' = outcome

FREDNormalize ==
    /\ pc = "idle"
    /\ \E cfg \in Scalings(BaseConfig), raw_data \in Payloads(FREDPoints) :
          Normalized_call("fred", 0, cfg, raw_data, FREDConnector_normalize(cfg, raw_data))

WorldBankNormalize ==
    /\ pc = "idle"
    /\ \E cfg \in Scalings(BaseConfig), raw_data \in Payloads(WorldBankPoints) :
          Normalized_call("worldbank", 0, cfg, raw_data,
                          WorldBankConnector_normalize(cfg, raw_data))

IMFNormalize ==
    /\ pc = "idle"
    /\ \E c \in Opt("USA"), country \in {"CHN", "USA"}, pts \in Payloads(IMFPoints) :
          \E cfg \in Scalings([BaseConfig EXCEPT !.indicator = "NGDP_RPCH", !.country = c]) :
             LET raw_data == IMFPayload(country, pts)
             IN  Normalized_call("imf", 0, cfg, raw_data,
                                 IMFConnector_normalize(cfg, raw_data))

DBnomicsNormalize ==
    /\ pc = "idle"
    /\ \E cfg \in Scalings(BaseConfig), pts \in Payloads(DBnomicsPoints) :
          LET raw_data == DBnomicsPayload(pts)
          IN  Normalized_call("dbnomics", 0, cfg, raw_data,
                              DBnomicsConnector_normalize(cfg, raw_data))

ECBNormalize ==
    /\ pc = "idle"
    /\ \E cfg \in Scalings(BaseConfig), pts \in Payloads(SDMXPoints) :
          LET raw_data == SDMXPayload(pts)
          IN  Normalized_call("ecb", 0, cfg, raw_data, ECBConnector_normalize(cfg, raw_data))

OECDNormalize ==
    /\ pc = "idle"
    /\ \E cfg \in Scalings(BaseConfig), pts \in Payloads(SDMXPoints) :
          LET raw_data == SDMXPayload(pts)
          IN  Normalized_call("oecd", 0, cfg, raw_data, OECDConnector_normalize(cfg, raw_data))

EStatNormalize ==
    /\ pc = "idle"
    /\ \E cfg \in Scalings(BaseConfig), raw_data \in Payloads(EStatPoints) :
          Normalized_call("estat_dashboard", 0, cfg, raw_data,
                          EStatDashboardConnector_normalize(cfg, raw_data))

YahooNormalize ==
    /\ pc = "idle"
    /\ \E cfg \in Scalings(BaseConfig), utcoffset \in UTCOffsets,
          pts \in Payloads(YahooPoints) :
          LET raw_data == YahooPayload(pts)
          IN  Normalized_call("yahoo", utcoffset, cfg, raw_data,
                              YahooFinanceConnector_normalize(cfg, utcoffset, raw_data))

\* The orchestrator takes the result and goes on to its next call.
NextCall ==
    /\ pc = "done"
    /\ pc' = "idle"
    /\ op' = [fn |-> "none", conn |-> "none", api_key |-> None]
    /\ config' = BaseConfig
    /\ raw' = JNull
    /\ reqlog' = <<>>
    /\ ret' = NoOutcome

Next ==
    \/ FREDFetch
    \/ ECBFetch
    \/ WorldBankFetch
    \/ IMFFetch
    \/ OECDFetch
    \/ EStatFetch
    \/ DBnomicsFetch
    \/ CoinGeckoFetch
    \/ YahooFetch
    \/ HuggingFaceFetch
    \/ VastAIFetch
    \/ NextCall

Spec == Init /\ [][Next]_vars

\* The orchestrator's calls of normalize.
NextN ==
    \/ FREDNormalize
    \/ WorldBankNormalize
    \/ IMFNormalize
    \/ DBnomicsNormalize
    \/ ECBNormalize
    \/ OECDNormalize
    \/ EStatNormalize
    \/ YahooNormalize
    \/ NextCall

SpecN == Init /\ [][NextN]_vars

-----------------------------------------------------------------------------
(* Claims about fetch *)

FetchDone == pc = "done" /\ op.fn = "fetch"

\* C1 (as claimed): for every connector, config and network outcome, fetch
\* returns a FetchResult and never lets an exception escape; a failure is
\* success=False with an error message.
C1_FetchNeverRaises ==
    FetchDone =>
        /\ ret.kind = "return"
        /\ ~ret.result.success => ret.result.error # None

\* The required addressing fields of the config are absent (unset or empty).
RequiredAbsent ==
    CASE op.conn = "fred" -> ~Truthy(config.series_id)
      [] op.conn = "ecb" -> ~Truthy(config.dataflow) \/ ~Truthy(config.series_key)
      [] op.conn = "worldbank" -> ~Truthy(config.indicator)
      [] op.conn = "imf" -> ~Truthy(config.indicator)
      [] op.conn = "estat_dashboard" -> ~Truthy(config.indicator_code)
      [] op.conn = "dbnomics" ->
            /\ ~Truthy(config.series_id)
            /\ ~Truthy(config.provider) \/ ~Truthy(config.dataset) \/ ~Truthy(config.series)
      [] OTHER -> FALSE

RequiredFieldError ==
    {"series_id required for FRED connector",
     "dataflow and series_key required for ECB connector",
     "indicator required for World Bank connector",
     "indicator required for IMF connector",
     "indicator_code required for e-Stat Dashboard connector",
     "series_id (format: provider/dataset/series) required for DBnomics connector"}

\* C2: when a required addressing field is absent from the config, fetch
\* returns success=False with the error naming the field, and the call has
\* issued no network request.
C2_MissingFieldNoRequest ==
    (FetchDone /\ RequiredAbsent) =>
        /\ ret.kind = "return"
        /\ ~ret.result.success
        /\ ret.result.error \in RequiredFieldError
        /\ reqlog = <<>>

C2_Witness ==
    /\ FetchDone /\ op.conn = "dbnomics"
    /\ config.series_id = None /\ config.provider = "ISM" /\ config.dataset = None
    /\ ret.kind = "return" /\ ~ret.result.success
    /\ reqlog = <<>>

\* C3: every FetchResult a fetch returns has an error exactly when success
\* is false.
C3_ErrorIffFailure ==
    (FetchDone /\ ret.kind = "return") =>
        (ret.result.error # None <=> ~ret.result.success)

\* The Vast.ai 401 fallback: a success that carries no error.
C3_Witness ==
    /\ FetchDone /\ op.conn = "vastai" /\ ret.kind = "return"
    /\ Len(reqlog) = 1 /\ reqlog[1].resp.kind = "http" /\ reqlog[1].resp.status = 401
    /\ ret.result.success /\ ret.result.error = None

\* C4: a request that ends in a transport error or timeout is the last
\* request of its fetch call, and the call returns success=False with that
\* error's message.
C4_NoRetry ==
    FetchDone =>
        \A i \in 1..Len(reqlog) :
            reqlog[i].resp.kind = "error" =>
                /\ i = Len(reqlog)
                /\ ret.kind = "return"
                /\ ~ret.result.success
                /\ ret.result.error = reqlog[i].resp.msg

\* HuggingFace fails on its third request after two that brought models.
C4_Witness ==
    /\ FetchDone /\ op.conn = "huggingface"
    /\ Len(reqlog) = 3
    /\ reqlog[1].resp.kind = "http" /\ reqlog[1].resp.status = 200
    /\ reqlog[2].resp.kind = "http" /\ reqlog[2].resp.status = 200
    /\ reqlog[3].resp.kind = "error"
    /\ ret.kind = "return" /\ ~ret.result.success
    /\ ret.result.error = "Read timed out"

\* C5 (as claimed): a fetch call issues at most one network request.
C5_AtMostOneRequest == FetchDone => Len(reqlog) <= 1

\* C5 (amended): a fetch call issues at most one network request, except
\* HuggingFace's, which issues at most one per sample offset.
C5_AtMostOneRequestPerOffset ==
    FetchDone =>
        Len(reqlog) <= (IF op.conn = "huggingface" THEN Len(SAMPLE_OFFSETS) ELSE 1)

C5_Witness ==
    /\ FetchDone /\ op.conn = "huggingface"
    /\ Len(reqlog) = Len(SAMPLE_OFFSETS)
    /\ ret.kind = "return" /\ ret.result.success

-----------------------------------------------------------------------------
(* Claims about normalize *)

NormalizeDone == pc = "done" /\ op.fn = "normalize"

\* normalize of the connector of the call, on another payload.
NormalizeOf(raw_data) ==
    CASE op.conn = "fred" -> FREDConnector_normalize(config, raw_data)
      [] op.conn = "worldbank" -> WorldBankConnector_normalize(config, raw_data)
      [] op.conn = "imf" -> IMFConnector_normalize(config, raw_data)
      [] op.conn = "dbnomics" -> DBnomicsConnector_normalize(config, raw_data)
      [] op.conn = "ecb" -> ECBConnector_normalize(config, raw_data)
      [] op.conn = "oecd" -> OECDConnector_normalize(config, raw_data)
      [] op.conn = "estat_dashboard" -> EStatDashboardConnector_normalize(config, raw_data)
      [] OTHER -> YahooFinanceConnector_normalize(config, op.utcoffset, raw_data)

\* The country dict IMF's normalize reads, empty when the payload has none
\* for the country.
IMFCountryData ==
    LET country_code == IF config.country \in {None, ""} THEN "CHN" ELSE config.country
    IN  IF country_code \in DOMAIN raw[config.indicator]
        THEN raw[config.indicator][country_code] ELSE <<>>

\* The number of points of the payload of the call.
NumPoints ==
    CASE op.conn \in {"fred", "worldbank", "estat_dashboard"} -> Len(raw)
      [] op.conn = "imf" -> Len(IMFCountryData)
      [] op.conn = "dbnomics" -> Len(raw.d.period.l)
      [] op.conn \in {"ecb", "oecd"} -> Len(raw.obs)
      [] OTHER -> Len(raw.timestamps)

\* The payload of the call cut down to its point i.
Only(i) ==
    CASE op.conn \in {"fred", "worldbank", "estat_dashboard"} -> <<raw[i]>>
      [] op.conn = "imf" ->
            [raw EXCEPT ![config.indicator] =
                [c \in DOMAIN @ |-> IF @[c] = IMFCountryData THEN <<@[c][i]>> ELSE @[c]]]
      [] op.conn = "dbnomics" ->
            JDict([period |-> JList(<<raw.d.period.l[i]>>),
                   value |-> JList(<<raw.d.value.l[i]>>)])
      [] op.conn \in {"ecb", "oecd"} -> [raw EXCEPT !.obs = <<@[i]>>]
      [] OTHER -> [timestamps |-> <<raw.timestamps[i]>>, closes |-> <<raw.closes[i]>>]

\* The period and the value of point i of the payload, Absent where the
\* point does not have the field.
PointPeriod(i) ==
    CASE op.conn \in {"fred", "worldbank"} ->
            IF raw[i].t = "dict" THEN Get(raw[i], "date", Absent) ELSE Absent
      [] op.conn = "estat_dashboard" ->
            IF Has(raw[i], "VALUE") /\ raw[i].d["VALUE"].t = "dict"
            THEN Get(raw[i].d["VALUE"], "@time", Absent) ELSE Absent
      [] op.conn = "imf" -> JStr(IMFCountryData[i].key)
      [] op.conn = "dbnomics" -> raw.d.period.l[i]
      [] op.conn \in {"ecb", "oecd"} ->
            IF \E k \in 1..Len(raw.time_values) : Str(k - 1) = raw.obs[i].key
            THEN raw.time_values[CHOOSE k \in 1..Len(raw.time_values) :
                                     Str(k - 1) = raw.obs[i].key]
            ELSE Absent
      [] OTHER -> raw.timestamps[i]

PointValue(i) ==
    CASE op.conn \in {"fred", "worldbank"} ->
            IF raw[i].t = "dict" THEN Get(raw[i], "value", Absent) ELSE Absent
      [] op.conn = "estat_dashboard" ->
            IF Has(raw[i], "VALUE") /\ raw[i].d["VALUE"].t = "dict"
            THEN Get(raw[i].d["VALUE"], "$", Absent) ELSE Absent
      [] op.conn = "imf" -> IMFCountryData[i].value
      [] op.conn = "dbnomics" -> raw.d.value.l[i]
      [] op.conn \in {"ecb", "oecd"} ->
            LET values == raw.obs[i].values
            IN  IF values.t # "list" THEN Absent
                ELSE IF values.l = <<>> THEN JNull ELSE values.l[1]
      [] OTHER -> raw.closes[i]

\* The value is a number, or a string holding one.
Present(v) == v.t = "num" \/ (v.t = "str" /\ FloatOK(v.s))

\* The value is what the source sends for "no value".
Missing(v) ==
    CASE op.conn = "fred" -> v \in {JStr(<<".">>), JStr(<<>>)}
      [] op.conn = "estat_dashboard" -> v = JStr(<<>>)
      [] OTHER -> v = JNull

DaysIn(year, month) ==
    IF month = 2
    THEN (IF year % 4 = 0 /\ (year % 100 # 0 \/ year % 400 = 0) THEN 29 ELSE 28)
    ELSE IF month \in {4, 6, 9, 11} THEN 30 ELSE 31

\* s is YYYY-MM-DD and names a day of the calendar.
IsDate(s) ==
    /\ Len(s) = 10
    /\ s[5] = "-" /\ s[8] = "-"
    /\ AllDigits(SubSeq(s, 1, 4)) /\ AllDigits(SubSeq(s, 6, 7)) /\ AllDigits(SubSeq(s, 9, 10))
    /\ IntOf(SubSeq(s, 6, 7)) \in 1..12
    /\ IntOf(SubSeq(s, 9, 10)) \in 1..DaysIn(IntOf(SubSeq(s, 1, 4)), IntOf(SubSeq(s, 6, 7)))

IsMonth(mm) == AllDigits(mm) /\ IntOf(mm) \in 1..12

\* The period is one of the encodings the source documents.
Recognized(p) ==
    CASE op.conn = "yahoo" -> p.t = "int"
      [] p.t # "str" -> FALSE
      [] op.conn = "fred" -> IsDate(p.s)
      [] op.conn \in {"worldbank", "imf"} -> Len(p.s) = 4 /\ AllDigits(p.s)
      [] op.conn \in {"ecb", "dbnomics", "oecd"} ->
            \/ Len(p.s) = 4 /\ AllDigits(p.s)
            \/ /\ Len(p.s) = 7 /\ AllDigits(SubSeq(p.s, 1, 4)) /\ p.s[5] = "-"
               /\ \/ IsMonth(SubSeq(p.s, 6, 7))
                  \/ p.s[6] = "Q" /\ <<p.s[7]>> \in QuarterKeys
      [] OTHER ->
            /\ Len(p.s) \in {8, 9} /\ AllDigits(SubSeq(p.s, 1, 4))
            /\ \/ Len(p.s) = 9 /\ IsMonth(SubSeq(p.s, 5, 6))
                  /\ SubSeq(p.s, 7, 9) = <<"M", "0", "0">>
               \/ Len(p.s) = 8 /\ <<p.s[5]>> \in QuarterKeys
                  /\ SubSeq(p.s, 6, 8) = <<"Q", "0", "0">>
               \/ Len(p.s) = 8
                  /\ SubSeq(p.s, 5, 8) \in {<<"C", "Y", "0", "0">>, <<"F", "Y", "0", "0">>}

\* Point i has a recognized period and a number for its value.
WellFormedPoint(i) == Recognized(PointPeriod(i)) /\ Present(PointValue(i))

\* C6 (as claimed): normalize returns, whatever is malformed or missing in
\* the entries of the payload, and the list it returns is no longer than
\* the payload.
C6_NormalizeNeverRaises ==
    NormalizeDone => ret.kind = "return" /\ Len(ret.result) <= NumPoints

\* C7 (as claimed): every well-formed point of a payload yields its
\* Observation (the one normalize gives for the point on its own), whatever
\* malformed points the payload holds before it.
C7_MalformedPointDoesNotAbort ==
    NormalizeDone =>
        \A i \in 1..NumPoints :
            WellFormedPoint(i) =>
                /\ ret.kind = "return"
                /\ LET alone == NormalizeOf(Only(i))
                   IN  /\ alone.kind = "return" /\ Len(alone.result) = 1
                       /\ \E j \in 1..Len(ret.result) : ret.result[j] = alone.result[1]

\* C8 (as claimed): a payload of one point whose period is a string that
\* is none of the source's encodings, the value being a number, normalizes
\* to the empty list: no Observation and no exception.
C8_MalformedPeriodSkipped ==
    (NormalizeDone /\ NumPoints = 1 /\ PointPeriod(1).t = "str"
        /\ ~Recognized(PointPeriod(1)) /\ Present(PointValue(1)))
        => ret = Normalized(<<>>)

\* Every point of the payload has a recognized period and a value that is
\* either a number or the source's "no value".
WellFormedPayload ==
    \A i \in 1..NumPoints :
        /\ Recognized(PointPeriod(i))
        /\ Present(PointValue(i)) \/ Missing(PointValue(i))

\* C9: a normalize that returns never has more Observations than the
\* payload has points whose value is not missing; and when every point
\* has a recognized period and a value that is a number or missing,
\* normalize returns exactly as many Observations as there are points
\* with a number, none of them for a point with a missing value.
C9_NoObservationForMissingValue ==
    NormalizeDone =>
        /\ ret.kind = "return" =>
              Len(ret.result) <= Cardinality({i \in 1..NumPoints : ~Missing(PointValue(i))})
        /\ WellFormedPayload =>
              /\ ret.kind = "return"
              /\ Len(ret.result) = Cardinality({i \in 1..NumPoints : Present(PointValue(i))})
              /\ \A i \in 1..NumPoints :
                    Missing(PointValue(i)) => NormalizeOf(Only(i)) = Normalized(<<>>)

C9_Witness ==
    /\ NormalizeDone /\ op.conn = "estat_dashboard" /\ WellFormedPayload
    /\ NumPoints = MaxPoints
    /\ Missing(PointValue(1)) /\ Present(PointValue(MaxPoints))
    /\ ret.kind = "return" /\ Len(ret.result) = MaxPoints - 1

NonDaily == {"ecb", "dbnomics", "oecd", "estat_dashboard", "worldbank", "imf"}

\* C10 (as claimed): the obs_date of every Observation normalize returns
\* is a YYYY-MM-DD string naming a day of the calendar, and its day is 01
\* for the sources that are not daily.
C10_ObsDateIsCalendarDate ==
    (NormalizeDone /\ ret.kind = "return") =>
        \A j \in 1..Len(ret.result) :
            LET d == ret.result[j].obs_date
            IN  /\ d.t = "str" /\ IsDate(d.s)
                /\ op.conn \in NonDaily => SubSeq(d.s, 9, 10) = <<"0", "1">>

-----------------------------------------------------------------------------
(* Claims about the order and the dates of what normalize returns *)

SortingSources == {"ecb", "worldbank", "imf", "oecd", "estat_dashboard", "dbnomics", "yahoo"}

\* C11: for ECB, World Bank, IMF, OECD, e-Stat, DBnomics and Yahoo, the
\* list normalize returns is in descending order of obs_date (compared as
\* the strings they are), whatever the order of the points in the payload.
C11_SortedByDateDescending ==
    (NormalizeDone /\ op.conn \in SortingSources /\ ret.kind = "return") =>
        \A j \in 1..(Len(ret.result) - 1) :
            /\ ret.result[j].obs_date.t = "str" /\ ret.result[j + 1].obs_date.t = "str"
            /\ ~StrLess(ret.result[j].obs_date.s, ret.result[j + 1].obs_date.s)

\* A payload whose two points come oldest first, returned newest first.
C11_Witness ==
    /\ NormalizeDone /\ op.conn = "worldbank" /\ NumPoints = 2
    /\ WellFormedPoint(1) /\ WellFormedPoint(2)
    /\ StrLess(PointPeriod(1).s, PointPeriod(2).s)
    /\ ret.kind = "return" /\ Len(ret.result) = 2
    /\ StrLess(ret.result[2].obs_date.s, ret.result[1].obs_date.s)

\* The entry's value is neither "." nor empty and parses as a number.
FREDValuePresent(item) ==
    /\ item.t = "dict" /\ Has(item, "value")
    /\ \/ item.d.value.t = "num"
       \/ /\ item.d.value.t = "str"
          /\ item.d.value.s \notin {<<".">>, <<>>}
          /\ FloatOK(item.d.value.s)

\* The entries of a payload whose value is present, in the payload's order.
RECURSIVE FREDPresent(_)
FREDPresent(raw_data) ==
    IF raw_data = <<>> THEN <<>>
    ELSE (IF FREDValuePresent(raw_data[1]) THEN <<raw_data[1]>> ELSE <<>>)
         \o FREDPresent(Tail(raw_data))

\* C28: what FRED's normalize returns is the payload's entries whose value
\* is neither "." nor empty and parses as a number, one Observation each in
\* the payload's own order (nothing is sorted), with the entry's date as
\* obs_date and the value times config.multiplier rounded to
\* config.decimals places: a multiple of 10^-decimals no further than half
\* of 10^-decimals from the product.
C28_FREDOrderPreservingFilter ==
    (NormalizeDone /\ op.conn = "fred" /\ ret.kind = "return") =>
        LET present == FREDPresent(raw)
            place == Pow10(3 - config.decimals)
        IN  /\ Len(ret.result) = Len(present)
            /\ \A j \in 1..Len(present) :
                  LET value == present[j].d.value
                      number == IF value.t = "num" THEN value.n ELSE Float(value.s)
                  IN  /\ ret.result[j].obs_date = present[j].d.date
                      /\ ret.result[j].value % place = 0
                      /\ 2 * Abs(Unit * ret.result[j].value - number * config.multiplier)
                            <= Unit * place

\* Two entries given oldest first come back oldest first, 2.125 x 100 as
\* 212.5 at one decimal.
C28_Witness ==
    /\ NormalizeDone /\ op.conn = "fred" /\ Len(raw) = 2
    /\ FREDValuePresent(raw[1]) /\ FREDValuePresent(raw[2])
    /\ raw[2].d.value = JStr(<<"2", ".", "1", "2", "5">>)
    /\ config.multiplier = 100 * Unit /\ config.decimals = 1
    /\ ret.kind = "return" /\ Len(ret.result) = 2
    /\ ret.result[1].obs_date.t = "str" /\ ret.result[2].obs_date.t = "str"
    /\ StrLess(ret.result[1].obs_date.s, ret.result[2].obs_date.s)
    /\ ret.result[2].value = 212500

-----------------------------------------------------------------------------
(* The period parsers called on their own *)

ParseYears == {2023, 2024}

\* The encodings each source documents, for every month and quarter of
\* the years, and strings that are none of them.
SDMXEncodings ==
    {Pad(y, 4) : y \in ParseYears}
    \cup {Pad(y, 4) \o Dash \o Pad(m, 2) : y \in ParseYears, m \in 1..12}
    \cup {Pad(y, 4) \o <<"-", "Q">> \o Str(q) : y \in ParseYears, q \in 1..4}

EStatEncodings ==
    {Pad(y, 4) \o Pad(m, 2) \o <<"M", "0", "0">> : y \in ParseYears, m \in 1..12}
    \cup {Pad(y, 4) \o Str(q) \o <<"Q", "0", "0">> : y \in ParseYears, q \in 1..4}
    \cup {Pad(y, 4) \o k \o <<"0", "0">> : y \in ParseYears, k \in {<<"C", "Y">>, <<"F", "Y">>}}

OtherPeriods ==
    {<<"2", "0", "2", "4", "-", "Q", "5">>, <<"2", "0", "2", "4", "W", "0", "3">>,
     <<"2", "0", "2", "4", "X", "X", "0", "0">>, <<"2", "0", "2", "4", "5", "Q", "0", "0">>,
     <<"2", "0">>, <<>>}

\* A call of a period parser ran to its end.
Parsed(conn, period, outcome) ==
    /\ pc' = "done"
    /\ op' = [fn |-> "parse_period", conn |-> conn, api_key |-> None]
    /\ config' = BaseConfig
    /\ raw' = period
    /\ reqlog' = <<>>
    /\ ret' = outcome

\* The outcome of a parser that gives [ok, v] or [ok, exc].
ParseOutcome(d) == IF d.ok THEN Return(d.v) ELSE Raise(d.exc)

ECBParseTimePeriod ==
    /\ pc = "idle"
    /\ \E s \in SDMXEncodings \cup OtherPeriods :
          Parsed("ecb", JStr(s), ParseOutcome(ECBConnector_parse_time_period(JStr(s))))

DBnomicsParsePeriod ==
    /\ pc = "idle"
    /\ \E s \in SDMXEncodings \cup OtherPeriods :
          Parsed("dbnomics", JStr(s), ParseOutcome(DBnomicsConnector_parse_period(JStr(s))))

OECDParseTimePeriod ==
    /\ pc = "idle"
    /\ \E s \in SDMXEncodings \cup OtherPeriods :
          Parsed("oecd", JStr(s), Return(JStr(OECDConnector_parse_time_period(JStr(s)))))

EStatParseTimePeriod ==
    /\ pc = "idle"
    /\ \E s \in EStatEncodings \cup OtherPeriods :
          LET d == EStatDashboardConnector_parse_time_period(JStr(s))
          IN  Parsed("estat_dashboard", JStr(s),
                     IF d.ok THEN Return(JStr(d.v)) ELSE Raise(d.exc))

NextP ==
    \/ ECBParseTimePeriod
    \/ DBnomicsParsePeriod
    \/ OECDParseTimePeriod
    \/ EStatParseTimePeriod
    \/ NextCall

SpecP == Init /\ [][NextP]_vars

-----------------------------------------------------------------------------
(* Claims about the period parsers *)

ParseDone == pc = "done" /\ op.fn = "parse_period"

\* The first month of quarter q.
QuarterStart(q) == Pad(3 * (q - 1) + 1, 2)

\* The ISO month-start date of a period in one of the source's encodings.
MonthStart(s) ==
    LET year == SubSeq(s, 1, 4)
    IN  IF op.conn = "estat_dashboard"
        THEN (IF Len(s) = 9 THEN year \o Dash \o SubSeq(s, 5, 6) \o <<"-", "0", "1">>
              ELSE IF s[6] = "Q"
              THEN year \o Dash \o QuarterStart(DigitVal(s[5])) \o <<"-", "0", "1">>
              ELSE IF s[5] = "C" THEN year \o <<"-", "0", "1", "-", "0", "1">>
              ELSE year \o <<"-", "0", "4", "-", "0", "1">>)
        ELSE (IF Len(s) = 4 THEN year \o <<"-", "0", "1", "-", "0", "1">>
              ELSE IF s[6] = "Q"
              THEN year \o Dash \o QuarterStart(DigitVal(s[7])) \o <<"-", "0", "1">>
              ELSE s \o <<"-", "0", "1">>)

\* C12 (as claimed): on every period in one of the source's encodings the
\* parser of ECB, DBnomics, OECD and e-Stat returns the ISO date of the
\* first day of the period's first month.
C12_ParsePeriodMonthStart ==
    (ParseDone /\ Recognized(raw)) => ret = Return(JStr(MonthStart(raw.s)))

\* The same for ECB, DBnomics and e-Stat, and for OECD's monthly and
\* annual encodings.
C12_ExceptOECDQuarterly ==
    (ParseDone /\ Recognized(raw) /\ ~(op.conn = "oecd" /\ Contains(raw.s, <<"Q">>)))
        => ret = Return(JStr(MonthStart(raw.s)))

-----------------------------------------------------------------------------
(* Claims about the static tables and the documented defaults *)

\* The table of the connector has no entry (or a null one) for the metric.
NoTableEntry ==
    CASE op.conn = "coingecko" -> MapGet(COIN_MAP, config.metric_id) = <<>>
      [] op.conn = "yahoo" -> MapGet(SYMBOL_MAP, config.metric_id) = <<>>
      [] op.conn = "oecd" -> MapGet(METRIC_MAP, config.metric_id) = <<>>
      [] OTHER -> FALSE

\* No config field overrides the table.
NoOverride ==
    IF op.conn = "oecd" THEN ~Truthy(config.dataflow) /\ ~Truthy(config.series_key)
    ELSE ~Truthy(config.series_id)

\* C13 (as claimed): when the connector's table has no entry for the
\* metric and no config field overrides it, fetch returns success=False
\* and issues no network request.
C13_UnmappedMetricFails ==
    (FetchDone /\ NoTableEntry /\ NoOverride) =>
        /\ ret.kind = "return" /\ ~ret.result.success
        /\ reqlog = <<>>

\* C13 (amended): with no table entry, OECD's fetch fails without a
\* request unless both dataflow and series_key are set in the config,
\* while CoinGecko's and Yahoo's fetch issue their one request for
\* config.series_id when it is set and otherwise for the last component
\* of metric_id (CoinGecko) or metric_id itself (Yahoo).
C13_UnmappedMetricFallsBack ==
    (FetchDone /\ NoTableEntry) =>
        CASE op.conn = "oecd" ->
                IF Truthy(config.dataflow) /\ Truthy(config.series_key)
                THEN Len(reqlog) = 1
                     /\ reqlog[1].req = <<"oecd", config.dataflow, config.series_key>>
                ELSE /\ ret = Fail("oecd", "No OECD mapping for metric")
                     /\ reqlog = <<>>
          [] op.conn = "coingecko" ->
                /\ Len(reqlog) = 1
                /\ reqlog[1].req =
                      <<"coingecko",
                        IF Truthy(config.series_id) THEN config.series_id
                        ELSE config.metric_id[Len(config.metric_id)]>>
          [] OTHER ->
                /\ Len(reqlog) = 1
                /\ reqlog[1].req =
                      IF Truthy(config.series_id) THEN <<"yahoo", config.series_id>>
                      ELSE <<"yahoo">> \o config.metric_id

\* CoinGecko asked for the coin "solana", which is in no table and no
\* config field, and the fetch succeeded.
C13_Witness ==
    /\ FetchDone /\ op.conn = "coingecko" /\ NoTableEntry /\ NoOverride
    /\ reqlog # <<>> /\ reqlog[1].req = <<"coingecko", "solana">>
    /\ ret.kind = "return" /\ ret.result.success

\* The calls in which a documented default can apply.
NextD ==
    \/ WorldBankFetch
    \/ IMFFetch
    \/ IMFNormalize
    \/ VastAIFetch
    \/ NextCall

SpecD == Init /\ [][NextD]_vars

\* The value a field stands for: the default when the field is unset or
\* empty, the field's own value otherwise.
WithDefault(field, default) == IF field \in {None, ""} THEN default ELSE field

\* C14: World Bank's fetch asks for country config.country, or "WLD" when
\* that is empty; IMF's fetch asks for config.country, or "CHN" when empty,
\* and IMF's normalize reads the dict of that same country from the payload
\* (nothing when the payload has none); Vast.ai's fetch puts
\* config.series_id, or "H100_80GB" when empty, in its payload as GPU model.
C14_DocumentedDefaults ==
    /\ (FetchDone /\ op.conn = "worldbank" /\ reqlog # <<>>) =>
          reqlog[1].req = <<"worldbank", WithDefault(config.country, "WLD"), config.indicator>>
    /\ (FetchDone /\ op.conn = "imf" /\ reqlog # <<>>) =>
          reqlog[1].req = <<"imf", config.indicator, WithDefault(config.country, "CHN")>>
    /\ (FetchDone /\ op.conn = "vastai" /\ ret.kind = "return" /\ ret.result.success) =>
          ret.result.data.d.gpu_model = CStr(WithDefault(config.series_id, "H100_80GB"))
    /\ (NormalizeDone /\ op.conn = "imf") =>
          LET country == WithDefault(config.country, "CHN")
              by_country == raw[config.indicator]
          IN  /\ ret.kind = "return"
              /\ country \notin DOMAIN by_country => ret.result = <<>>
              /\ (country \in DOMAIN by_country /\ WellFormedPayload) =>
                    Len(ret.result) =
                        Cardinality({i \in 1..Len(by_country[country]) :
                                        Present(by_country[country][i].value)})

\* IMF's normalize, the config naming no country, returned the
\* Observations of the payload's "CHN" dict.
C14_Witness ==
    /\ NormalizeDone /\ op.conn = "imf" /\ config.country = None
    /\ "CHN" \in DOMAIN raw[config.indicator]
    /\ WellFormedPayload /\ NumPoints = MaxPoints
    /\ ret.kind = "return" /\ Len(ret.result) = MaxPoints

-----------------------------------------------------------------------------
(* Claims about the fallback of HuggingFace and Vast.ai *)

\* The live endpoint is unreachable (the first request ends in a transport
\* error) or requires authentication (every response is a 401).
UnreachableOrUnauthorized ==
    /\ reqlog # <<>>
    /\ \/ reqlog[1].resp.kind = "error"
       \/ \A i \in 1..Len(reqlog) :
             reqlog[i].resp.kind = "http" /\ reqlog[i].resp.status = 401

\* C15 (as claimed): when the live endpoint of HuggingFace or Vast.ai is
\* unreachable or requires authentication, fetch returns success=True with
\* a payload tagged as fallback.
C15_FallbackWhenUnreachable ==
    (FetchDone /\ op.conn \in {"huggingface", "vastai"} /\ UnreachableOrUnauthorized) =>
        /\ ret.kind = "return" /\ ret.result.success
        /\ Has(ret.result.data, "fallback") /\ JTruthy(ret.result.data.d.fallback)

\* The one case with a fallback: Vast.ai answering 401.
C15_OnlyVastAI401 ==
    (FetchDone /\ ret.kind = "return" /\ Has(ret.result.data, "fallback")) =>
        /\ op.conn = "vastai" /\ ret.result.success
        /\ Len(reqlog) = 1 /\ reqlog[1].resp.kind = "http" /\ reqlog[1].resp.status = 401

-----------------------------------------------------------------------------
(* health_check *)

\* The statuses a probe is answered with besides 200.
ProbeStatuses == FailStatuses \cup {204, 302}

\* Every outcome of the probe's requests.get.
Probes(bodies) ==
    {ErrorResponse(m) : m \in TransportErrors}
    \cup {HttpResponse(s, NotJSON) : s \in ProbeStatuses}
    \cup {HttpResponse(200, b) : b \in bodies \cup {NotJSON}}

\* health_check of FRED, ECB, World Bank, IMF, OECD, DBnomics, CoinGecko,
\* Yahoo and HuggingFace: the same code but for the URL probed.
Connector_health_check(resp) ==
    IF resp.kind = "error" THEN Return(FALSE)
    ELSE Return(resp.status = 200)

EStatDashboardConnector_health_check(resp) ==
    IF resp.kind = "error" THEN Return(FALSE)
    ELSE IF resp.status # 200 THEN Return(FALSE)
    ELSE IF resp.body.t = "notjson" THEN Return(FALSE)
    ELSE LET result == GetPath(resp.body, <<"GET_STATS", "RESULT">>, EmptyDict)
         IN  IF result = Absent \/ result.t # "dict" THEN Raise("AttributeError")
             ELSE Return(Get(result, "status", JNull) = JStr(<<"0">>))

VastAIConnector_health_check(resp) ==
    IF resp.kind = "error" THEN Return(FALSE)
    ELSE Return(resp.status \in {200, 401})

\* A health_check call ran to its end.
Probed(conn, resp, outcome) ==
    /\ pc' = "done"
    /\ op' = [fn |-> "health_check", conn |-> conn, api_key |-> None]
    /\ config' = BaseConfig
    /\ raw' = JNull
    /\ reqlog' = <<Exchange(<<conn, "health_check">>, resp)>>
    /\ ret' = outcome

HealthCheck ==
    /\ pc = "idle"
    /\ \E conn \in {"fred", "ecb", "worldbank", "imf", "oecd", "dbnomics", "coingecko",
                    "yahoo", "huggingface"},
          resp \in Probes(AnyJSONBodies) :
          Probed(conn, resp, Connector_health_check(resp))

EStatHealthCheck ==
    /\ pc = "idle"
    /\ \E resp \in Probes(EStatBodies) :
          Probed("estat_dashboard", resp, EStatDashboardConnector_health_check(resp))

VastAIHealthCheck ==
    /\ pc = "idle"
    /\ \E resp \in Probes(VastAIBodies) :
          Probed("vastai", resp, VastAIConnector_health_check(resp))

NextH ==
    \/ HealthCheck
    \/ EStatHealthCheck
    \/ VastAIHealthCheck
    \/ NextCall

SpecH == Init /\ [][NextH]_vars

-----------------------------------------------------------------------------
(* Claims about health_check *)

HealthDone == pc = "done" /\ op.fn = "health_check"

\* C16 (as claimed): health_check issues one probe and returns a boolean,
\* never an exception: False when the probe ends in a transport error or
\* is answered with a status other than 200, and for e-Stat True only if
\* the status embedded in the body is '0'.
C16_HealthCheckIsBoolean ==
    HealthDone =>
        /\ Len(reqlog) = 1
        /\ ret.kind = "return" /\ ret.result \in BOOLEAN
        /\ (reqlog[1].resp.kind = "error" \/ reqlog[1].resp.status # 200) => ~ret.result
        /\ (op.conn = "estat_dashboard" /\ ret.result) =>
              GetPath(reqlog[1].resp.body, <<"GET_STATS", "RESULT", "status">>, JNull)
                  = JStr(<<"0">>)

\* What holds of every health_check but e-Stat's on a body of the wrong
\* shape and Vast.ai's on a 401.
C16_ExceptEStatShapeAndVastAI401 ==
    (HealthDone /\ ret.kind = "return"
        /\ ~(op.conn = "vastai" /\ reqlog[1].resp.kind = "http"
                /\ reqlog[1].resp.status = 401)) =>
        /\ Len(reqlog) = 1 /\ ret.result \in BOOLEAN
        /\ (reqlog[1].resp.kind = "error" \/ reqlog[1].resp.status # 200) => ~ret.result
        /\ (op.conn = "estat_dashboard" /\ ret.result) =>
              GetPath(reqlog[1].resp.body, <<"GET_STATS", "RESULT", "status">>, JNull)
                  = JStr(<<"0">>)

-----------------------------------------------------------------------------
(* transforms.calculations *)

\* datetime.strptime(s, "%Y-%m-%d"): a four-digit year, a month and a day of
\* one or two digits, naming a day of the calendar; ValueError otherwise.
Strptime(s) ==
    LET dashes == {i \in 1..Len(s) : s[i] = "-"}
        first == CHOOSE i \in dashes : \A j \in dashes : i <= j
        second == CHOOSE i \in dashes : \A j \in dashes : j <= i
        year == SubSeq(s, 1, first - 1)
        month == SubSeq(s, first + 1, second - 1)
        day == SubSeq(s, second + 1, Len(s))
        wellFormed ==
            /\ Cardinality(dashes) = 2
            /\ Len(year) = 4 /\ AllDigits(year) /\ IntOf(year) >= 1
            /\ Len(month) \in {1, 2} /\ AllDigits(month) /\ IntOf(month) \in 1..12
            /\ Len(day) \in {1, 2} /\ AllDigits(day)
            /\ IntOf(day) \in 1..DaysIn(IntOf(year), IntOf(month))
    IN  IF wellFormed
        THEN [ok |-> TRUE,
              v |-> [year |-> IntOf(year), month |-> IntOf(month), day |-> IntOf(day)]]
        ELSE [ok |-> FALSE, exc |-> "ValueError"]

\* date.replace(year=year, month=month): ValueError when the month has no
\* such day.
Replace(date, year, month) ==
    IF year >= 1 /\ date.day <= DaysIn(year, month)
    THEN [ok |-> TRUE, v |-> [year |-> year, month |-> month, day |-> date.day]]
    ELSE [ok |-> FALSE, exc |-> "ValueError"]

\* date.strftime("%Y-%m-%d")
Strftime(date) ==
    Pad(date.year, 4) \o Dash \o Pad(date.month, 2) \o Dash \o Pad(date.day, 2)

\* {obs.obs_date: obs.value for obs in observations}: of two entries with the
\* same date the later one stays.
DateValues(observations) ==
    [d \in {observations[i].obs_date : i \in DOMAIN observations} |->
        LET last == CHOOSE i \in DOMAIN observations :
                        /\ observations[i].obs_date = d
                        /\ \A j \in DOMAIN observations :
                              observations[j].obs_date = d => j <= i
        IN  observations[last].value]

\* round(n / q, 2) in thousandths, n and q integers, q # 0.
Round2(n, q) ==
    10 * (IF q < 0 THEN RoundHalfEven((0 - n) * 100, 0 - q) ELSE RoundHalfEven(n * 100, q))

\* The rest of the try block once prior_date is computed: the observations
\* appended for obs, none when the lookup misses, the prior value is zero or
\* ValueError was raised.  Here an Observation carries its retrieved_at.
PercentPoint(obs, prior_date, date_values) ==
    IF ~prior_date.ok THEN <<>>
    ELSE LET prior_date_str == JStr(Strftime(prior_date.v))
         IN  IF prior_date_str \notin DOMAIN date_values THEN <<>>
             ELSE LET prior_value == date_values[prior_date_str]
                  IN  IF prior_value = 0 THEN <<>>
                      ELSE <<[metric_id |-> obs.metric_id,
                              obs_date |-> obs.obs_date,
                              value |-> Round2((obs.value - prior_value) * 100, prior_value),
                              unit |-> "%",
                              source |-> obs.source,
                              retrieved_at |-> obs.retrieved_at]>>

RECURSIVE Concat(_)
Concat(lists) == IF lists = <<>> THEN <<>> ELSE Head(lists) \o Concat(Tail(lists))

YoYPoint(obs, date_values) ==
    LET current_date == Strptime(obs.obs_date.s)
    IN  IF ~current_date.ok THEN <<>>
        ELSE PercentPoint(obs,
                          Replace(current_date.v, current_date.v.year - 1,
                                  current_date.v.month),
                          date_values)

\* The list is processed whatever its length: no gate on the count.
calculate_yoy_percent_ungated(observations) ==
    LET date_values == DateValues(observations)
    IN  Return(Concat([i \in DOMAIN observations |->
                          YoYPoint(observations[i], date_values)]))

calculate_yoy_percent(observations) ==
    IF Len(observations) < 13 THEN Return(<<>>)
    ELSE LET date_values == DateValues(observations)
         IN  Return(Concat([i \in DOMAIN observations |->
                               YoYPoint(observations[i], date_values)]))

\* The month three back is taken in the same year: a rollover of the month
\* without the year's.
QoQPoint_same_year(obs, date_values) ==
    LET current_date == Strptime(obs.obs_date.s)
    IN  IF ~current_date.ok THEN <<>>
        ELSE LET month == current_date.v.month - 3
             IN  PercentPoint(obs,
                              Replace(current_date.v, current_date.v.year,
                                      IF month < 1 THEN month + 12 ELSE month),
                              date_values)

QoQPoint(obs, date_values) ==
    LET current_date == Strptime(obs.obs_date.s)
    IN  IF ~current_date.ok THEN <<>>
        ELSE LET month == current_date.v.month - 3
                 rolled == month < 1
             IN  PercentPoint(obs,
                              Replace(current_date.v,
                                      IF rolled THEN current_date.v.year - 1
                                      ELSE current_date.v.year,
                                      IF rolled THEN month + 12 ELSE month),
                              date_values)

calculate_qoq_percent(observations) ==
    IF Len(observations) < 5 THEN Return(<<>>)
    ELSE LET date_values == DateValues(observations)
         IN  Return(Concat([i \in DOMAIN observations |->
                               QoQPoint(observations[i], date_values)]))

\* round(n / q, ndigits) as a whole number of 10^-ndigits, q > 0 or q < 0.
Round(n, q, ndigits) ==
    IF q < 0 THEN RoundHalfEven((0 - n) * Pow10(ndigits), 0 - q)
    ELSE RoundHalfEven(n * Pow10(ndigits), q)

\* current and previous are JSON numbers in hundred-thousandths (Fine to the
\* unit), previous possibly None (JNull).  Of the pair returned, absolute is
\* in hundred-thousandths, so that round(absolute, 4) is the nearest ten of
\* them, and percent is in hundredths.
Fine == 100 * Unit

\* The difference is returned as computed: absolute is not rounded.
calculate_change_absolute_unrounded(current, previous) ==
    IF previous = JNull THEN Return(<<JNull, JNull>>)
    ELSE IF previous.n = 0 THEN Return(<<JNum(current.n - previous.n), JNull>>)
    ELSE LET absolute == current.n - previous.n
         IN  Return(<<JNum(absolute), JNum(Round(absolute * 100, previous.n, 2))>>)

calculate_change(current, previous) ==
    IF previous = JNull THEN Return(<<JNull, JNull>>)
    ELSE IF previous.n = 0 THEN Return(<<JNum(current.n - previous.n), JNull>>)
    ELSE LET absolute == current.n - previous.n
         IN  Return(<<JNum(10 * Round(absolute, 10, 0)),
                      JNum(Round(absolute * 100, previous.n, 2))>>)

Reversed(s) == [i \in 1..Len(s) |-> s[Len(s) + 1 - i]]

\* s[:n]
SliceTo(s, n) ==
    IF n >= 0 THEN SubSeq(s, 1, Min(n, Len(s)))
    ELSE SubSeq(s, 1, Len(s) + n)

\* The values are kept in input order: the list is returned as sliced.
prepare_sparkline_data_unreversed(observations, points) ==
    LET recent == SliceTo(observations, points)
    IN  Return([i \in 1..Len(recent) |-> recent[i].value])

prepare_sparkline_data(observations, points) ==
    LET recent == SliceTo(observations, points)
        reversed == Reversed(recent)
    IN  Return([i \in 1..Len(reversed) |-> reversed[i].value])

-----------------------------------------------------------------------------
(* The arguments handed to the transforms *)

\* tests.test_transforms.make_observation, with a unit other than "%" and
\* the position in the list as retrieved_at.
make_observation(date, value, retrieved_at) ==
    [metric_id |-> "test", obs_date |-> JStr(date), value |-> value,
     unit |-> "idx", source |-> "test", retrieved_at |-> retrieved_at]

Ymd(year, month, day) == Strftime([year |-> year, month |-> month, day |-> day])

\* A month and its year-earlier date, and a leap day with the nearest day a
\* year back.
YoYDates == {Ymd(2024, 3, 1), Ymd(2023, 3, 1), Ymd(2024, 2, 29), Ymd(2023, 2, 28)}

\* A quarter chain across the year's end, and a 31st whose month three back
\* has no 31st.
QoQDates == {Ymd(2024, 6, 1), Ymd(2024, 3, 1), Ymd(2023, 12, 1), Ymd(2024, 5, 31)}

\* 0, 1.0 and 3.0 in thousandths.
ObsValues == {0, Unit, 3 * Unit}

\* The lists of up to MaxPoints observations with these dates, made one
\* entry short of gate or exactly gate entries long by entries of value 1.0
\* that all have one date: a far one, or one of dates (more), and then they
\* follow or precede the others.
ObservationLists(dates, more, gate) ==
    UNION {
        {[i \in 1..(k + n) |->
             IF pad[2]
             THEN (IF i <= n THEN make_observation(pad[1], Unit, i)
                   ELSE make_observation(pts[i - n][1], pts[i - n][2], i))
             ELSE (IF i <= k THEN make_observation(pts[i][1], pts[i][2], i)
                   ELSE make_observation(pad[1], Unit, i))] :
           pts \in [1..k -> dates \X ObsValues],
           n \in {gate - 1 - k, gate - k},
           pad \in {<<Ymd(2000, 1, 1), FALSE>>, <<more, FALSE>>, <<more, TRUE>>}} :
        k \in 0..MaxPoints}

\* 0, 0.00001, 0.00004, 0.3, 1.0 and -1.0 in hundred-thousandths.
ChangeValues == {JNum(0), JNum(1), JNum(4), JNum(3 * 10 * Unit), JNum(Fine), JNum(0 - Fine)}

SparklineLists ==
    UNION {[1..n -> {[value |-> v] : v \in ObsValues}] : n \in 0..(MaxPoints + 1)}

-----------------------------------------------------------------------------
(* Calls of the transforms *)

Transformed(fn, args, outcome) ==
    /\ pc' = "done"
    /\ op' = [fn |-> fn, conn |-> "none", api_key |-> None]
    /\ config' = BaseConfig
    /\ raw' = args
    /\ reqlog' = <<>>
    /\ ret' = outcome

CalculateYoYPercent ==
    /\ pc = "idle"
    /\ \E observations \in ObservationLists(YoYDates, Ymd(2023, 3, 1), 13) :
          Transformed("calculate_yoy_percent", [observations |-> observations],
                      calculate_yoy_percent(observations))

CalculateQoQPercent ==
    /\ pc = "idle"
    /\ \E observations \in ObservationLists(QoQDates, Ymd(2023, 12, 1), 5) :
          Transformed("calculate_qoq_percent", [observations |-> observations],
                      calculate_qoq_percent(observations))

CalculateChange ==
    /\ pc = "idle"
    /\ \E current \in ChangeValues, previous \in ChangeValues \cup {JNull} :
          Transformed("calculate_change", [current |-> current, previous |-> previous],
                      calculate_change(current, previous))

PrepareSparklineData ==
    /\ pc = "idle"
    /\ \E observations \in SparklineLists, points \in 0..(MaxPoints + 2) :
          Transformed("prepare_sparkline_data",
                      [observations |-> observations, points |-> points],
                      prepare_sparkline_data(observations, points))

NextT ==
    \/ CalculateYoYPercent
    \/ CalculateQoQPercent
    \/ CalculateChange
    \/ PrepareSparklineData
    \/ NextCall

SpecT == Init /\ [][NextT]_vars

TransformDone(fn) == pc = "done" /\ op.fn = fn

-----------------------------------------------------------------------------
(* Claims about the transforms *)

PercentDone == pc = "done" /\ op.fn \in {"calculate_yoy_percent", "calculate_qoq_percent"}

MonthsBack == IF op.fn = "calculate_yoy_percent" THEN 12 ELSE 3

MinEntries == IF op.fn = "calculate_yoy_percent" THEN 13 ELSE 5

\* The obs_date string of the day n months before the day s names; <<>> when
\* s names no day or the earlier month has no such day.
MonthsEarlier(s, n) ==
    LET d == Strptime(s)
        months == d.v.year * 12 + (d.v.month - 1) - n
        year == months \div 12
        month == (months % 12) + 1
    IN  IF ~d.ok THEN <<>>
        ELSE IF d.v.day > DaysIn(year, month) THEN <<>>
        ELSE Ymd(year, month, d.v.day)

\* The entries of the input dated MonthsBack months before entry i.
Priors(i) ==
    LET earlier == JStr(MonthsEarlier(raw.observations[i].obs_date.s, MonthsBack))
    IN  {j \in DOMAIN raw.observations : raw.observations[j].obs_date = earlier}

\* The entry the date -> value map keeps among them.
LastPrior(i) == CHOOSE j \in Priors(i) : \A h \in Priors(i) : h <= j

\* The k-th smallest member of a set of positions.
Nth(S, k) == CHOOSE i \in S : Cardinality({j \in S : j < i}) = k - 1

\* Output entry k carries over input entry i, with the unit forced to "%".
CarriedOver(k, i) ==
    /\ ret.result[k].metric_id = raw.observations[i].metric_id
    /\ ret.result[k].obs_date = raw.observations[i].obs_date
    /\ ret.result[k].source = raw.observations[i].source
    /\ ret.result[k].retrieved_at = raw.observations[i].retrieved_at
    /\ ret.result[k].unit = "%"

\* C17 (as stated): calculate_yoy_percent (12 months) and
\* calculate_qoq_percent (3 months) emit an Observation for an input entry
\* exactly when the list holds an entry dated that many months earlier whose
\* value is non-zero; the outputs come in input order, keep metric_id,
\* obs_date, source and retrieved_at, have unit "%" and the value
\* (current - prior) / prior * 100.
C17_PercentEmittedIffPriorExists ==
    PercentDone =>
        LET emitted == {i \in DOMAIN raw.observations :
                           \E j \in Priors(i) : raw.observations[j].value # 0}
        IN  /\ ret.kind = "return"
            /\ Len(ret.result) = Cardinality(emitted)
            /\ \A k \in DOMAIN ret.result :
                  LET i == Nth(emitted, k)
                  IN  /\ CarriedOver(k, i)
                      /\ \E j \in Priors(i) :
                            /\ raw.observations[j].value # 0
                            /\ ret.result[k].value * raw.observations[j].value
                                 = (raw.observations[i].value - raw.observations[j].value)
                                      * 100 * Unit

\* C17 (amended): on a list of at least 13 (year-over-year) or 5
\* (quarter-over-quarter) entries, an Observation is emitted for an entry
\* exactly when the list holds an entry dated that many months earlier and
\* the last such entry has a non-zero value; the outputs come in input
\* order, keep metric_id, obs_date, source and retrieved_at, have unit "%"
\* and the value (current - prior) / prior * 100 rounded to two decimals.
C17_PercentEmittedAtGateRounded ==
    (PercentDone /\ Len(raw.observations) >= MinEntries) =>
        LET emitted == {i \in DOMAIN raw.observations :
                           /\ Priors(i) # {}
                           /\ raw.observations[LastPrior(i)].value # 0}
        IN  /\ ret.kind = "return"
            /\ Len(ret.result) = Cardinality(emitted)
            /\ \A k \in DOMAIN ret.result :
                  LET i == Nth(emitted, k)
                      prior == raw.observations[LastPrior(i)].value
                      exact == (raw.observations[i].value - prior) * 100 * Unit
                  IN  /\ CarriedOver(k, i)
                      /\ ret.result[k].value % 10 = 0
                      /\ Abs(ret.result[k].value * prior - exact) <= 5 * Abs(prior)

\* A quarter-over-quarter call that emitted for two entries, the second one
\* against a prior of the year before and the first one with a value that
\* rounding changed, and left out at least one entry.
C17_Witness ==
    /\ PercentDone /\ op.fn = "calculate_qoq_percent"
    /\ Len(ret.result) = 2
    /\ Len(raw.observations) > 2
    /\ ret.result[2].obs_date = JStr(Ymd(2024, 3, 1))
    /\ ret.result[1].value % Unit # 0

\* C18: calculate_yoy_percent returns the empty list for fewer than 13
\* entries and calculate_qoq_percent for fewer than 5, whatever the dates and
\* values; the gate counts entries, so a list that reaches the count with
\* repeated dates is processed.
C18_EmptyBelowGate ==
    PercentDone =>
        /\ Len(raw.observations) < MinEntries => ret = Return(<<>>)
        /\ (/\ Len(raw.observations) >= MinEntries
            /\ \E i \in DOMAIN raw.observations :
                  Priors(i) # {} /\ raw.observations[LastPrior(i)].value # 0)
              => ret.result # <<>>

\* A year-over-year call on 12 entries, one of them dated a year before
\* another and non-zero, that returned the empty list.
C18_Witness ==
    /\ PercentDone /\ op.fn = "calculate_yoy_percent"
    /\ Len(raw.observations) = 12
    /\ \E i \in DOMAIN raw.observations :
          \E j \in Priors(i) : raw.observations[j].value # 0
    /\ ret = Return(<<>>)

\* C19 (as stated): calculate_change returns (None, None) when previous is
\* None, (current - previous, None) when previous is zero, and otherwise
\* absolute = current - previous and percent = absolute / previous * 100, so
\* that calculate_change(x, x) = (0, 0) for non-zero x.
C19_ChangeIsDifferenceAndQuotient ==
    TransformDone("calculate_change") =>
        /\ ret.kind = "return"
        /\ IF raw.previous = JNull THEN ret.result = <<JNull, JNull>>
           ELSE IF raw.previous.n = 0
                THEN ret.result = <<JNum(raw.current.n - raw.previous.n), JNull>>
           ELSE /\ ret.result[1] = JNum(raw.current.n - raw.previous.n)
                /\ ret.result[2].t = "num"
                /\ ret.result[2].n * raw.previous.n
                     = (raw.current.n - raw.previous.n) * 100 * 100
        /\ (raw.previous # JNull /\ raw.current = raw.previous /\ raw.previous.n # 0)
              => ret.result = <<JNum(0), JNum(0)>>

\* C19 (amended): calculate_change returns (None, None) when previous is
\* None, (current - previous, None) when previous is zero, and otherwise
\* current - previous rounded to four decimals and absolute / previous * 100
\* rounded to two, so that calculate_change(x, x) = (0, 0) for non-zero x.
C19_ChangeIsRounded ==
    TransformDone("calculate_change") =>
        /\ ret.kind = "return"
        /\ IF raw.previous = JNull THEN ret.result = <<JNull, JNull>>
           ELSE IF raw.previous.n = 0
                THEN ret.result = <<JNum(raw.current.n - raw.previous.n), JNull>>
           ELSE /\ ret.result[1].n % 10 = 0
                /\ Abs(ret.result[1].n - (raw.current.n - raw.previous.n)) <= 5
                /\ ret.result[2].t = "num"
                /\ 2 * Abs(ret.result[2].n * raw.previous.n
                           - (raw.current.n - raw.previous.n) * 100 * 100)
                     <= Abs(raw.previous.n)
        /\ (raw.previous # JNull /\ raw.current = raw.previous /\ raw.previous.n # 0)
              => ret.result = <<JNum(0), JNum(0)>>

\* A call with a non-zero previous where rounding changed both the
\* difference and the quotient.
C19_Witness ==
    /\ TransformDone("calculate_change")
    /\ raw.previous # JNull /\ raw.previous.n # 0
    /\ ret.result[1].n # raw.current.n - raw.previous.n
    /\ ret.result[2].n * raw.previous.n # (raw.current.n - raw.previous.n) * 100 * 100

\* C20: prepare_sparkline_data returns the values of the first
\* min(points, len(observations)) observations in reversed order: element k
\* of the result is the value of input element min(points, len) - 1 - k, and
\* the empty input gives the empty list.
C20_SparklineFirstPointsReversed ==
    TransformDone("prepare_sparkline_data") =>
        LET n == IF raw.points < Len(raw.observations) THEN raw.points
                 ELSE Len(raw.observations)
        IN  /\ ret.kind = "return"
            /\ Len(ret.result) = n
            /\ \A k \in 0..(n - 1) :
                  ret.result[k + 1] = raw.observations[(n - 1 - k) + 1].value
            /\ raw.observations = <<>> => ret.result = <<>>

\* A call with fewer points than observations whose first two values differ.
C20_Witness ==
    /\ TransformDone("prepare_sparkline_data")
    /\ raw.points >= 2 /\ raw.points < Len(raw.observations)
    /\ raw.observations[1].value # raw.observations[2].value
    /\ Len(ret.result) = raw.points

-----------------------------------------------------------------------------
(* IEEE 754 double arithmetic of the down-sampling index, int(i * (n / w))

   A double carries Precision significant bits.  A significand is held as
   five limbs, most significant first: the integer part and four limbs of
   LimbBits bits of fraction (Precision - 1 = 4 * LimbBits). *)

Precision == 53

LimbBits == (Precision - 1) \div 4

RECURSIVE Pow2(_)
Pow2(e) == IF e = 0 THEN 1 ELSE 2 * Pow2(e - 1)

Limb == Pow2(LimbBits)

\* The binary exponent of n / w for n >= w > 0: n / w = m * 2^e, 1 <= m < 2.
RECURSIVE Exponent(_, _)
Exponent(n, w) == IF 2 * w <= n THEN 1 + Exponent(n, 2 * w) ELSE 0

\* The number of bits of c > 0.
RECURSIVE BitLength(_)
BitLength(c) == IF c = 0 THEN 0 ELSE 1 + BitLength(c \div 2)

\* The limbs with every carry moved up; the first limb takes what is left.
Carried(limbs) ==
    LET c5 == limbs[5]
        c4 == limbs[4] + c5 \div Limb
        c3 == limbs[3] + c4 \div Limb
        c2 == limbs[2] + c3 \div Limb
        c1 == limbs[1] + c2 \div Limb
    IN  <<c1, c2 % Limb, c3 % Limb, c4 % Limb, c5 % Limb>>

\* An exact product rounded to Precision bits, ties to even: the bits the
\* first limb holds beyond one are dropped from the last limb.
RoundBits(limbs) ==
    LET dropped == Pow2(BitLength(limbs[1]) - 1)
        kept == limbs[5] \div dropped
        rest == limbs[5] % dropped
        up == 2 * rest > dropped \/ (2 * rest = dropped /\ kept % 2 = 1)
    IN  Carried([limbs EXCEPT ![5] = (kept + (IF up THEN 1 ELSE 0)) * dropped])

\* step = n / w: the significand of the quotient rounded to a double, by
\* long division, ties to even.
Step(n, w) ==
    LET d == w * Pow2(Exponent(n, w))
        r0 == n - d
        l1 == (r0 * Limb) \div d
        r1 == (r0 * Limb) % d
        l2 == (r1 * Limb) \div d
        r2 == (r1 * Limb) % d
        l3 == (r2 * Limb) \div d
        r3 == (r2 * Limb) % d
        l4 == (r3 * Limb) \div d
        r4 == (r3 * Limb) % d
        up == 2 * r4 > d \/ (2 * r4 = d /\ l4 % 2 = 1)
    IN  Carried(<<1, l1, l2, l3, l4 + (IF up THEN 1 ELSE 0)>>)

\* int(i * step): the product rounded to a double, then truncated.
SampleIndex(i, n, w) ==
    IF i = 0 THEN 0
    ELSE LET step == Step(n, w)
             product == RoundBits(Carried([k \in 1..5 |-> step[k] * i]))
             e == Exponent(n, w)
         IN  product[1] * Pow2(e) + product[2] \div Pow2(LimbBits - e)

-----------------------------------------------------------------------------
(* transforms.calculations: the sparkline renderers *)

\* A float is JNum(n) or one of these.
Inf == [t |-> "inf"]
NegInf == [t |-> "-inf"]
NaN == [t |-> "nan"]

\* a < b
FloatLess(a, b) ==
    IF a = NaN \/ b = NaN \/ a = b THEN FALSE
    ELSE IF a = NegInf \/ b = Inf THEN TRUE
    ELSE IF a = Inf \/ b = NegInf THEN FALSE
    ELSE a.n < b.n

\* a - b
FloatSub(a, b) ==
    IF a = NaN \/ b = NaN THEN NaN
    ELSE IF a \in {Inf, NegInf} THEN (IF b = a THEN NaN ELSE a)
    ELSE IF b = Inf THEN NegInf
    ELSE IF b = NegInf THEN Inf
    ELSE JNum(a.n - b.n)

\* min(values) and max(values): the first value, replaced by each later one
\* that compares less (greater) than what is held.
RECURSIVE MinFrom(_, _, _)
MinFrom(values, k, held) ==
    IF k > Len(values) THEN held
    ELSE MinFrom(values, k + 1, IF FloatLess(values[k], held) THEN values[k] ELSE held)

RECURSIVE MaxFrom(_, _, _)
MaxFrom(values, k, held) ==
    IF k > Len(values) THEN held
    ELSE MaxFrom(values, k + 1, IF FloatLess(held, values[k]) THEN values[k] ELSE held)

\* int((v - min_val) / (max_val - min_val) * levels): NaN does not convert
\* (ValueError) and an infinity neither (OverflowError); int truncates.
Level(v, min_val, max_val, levels) ==
    LET num == FloatSub(v, min_val)
        den == FloatSub(max_val, min_val)
    IN  IF num = NaN \/ den = NaN THEN [ok |-> FALSE, exc |-> "ValueError"]
        ELSE IF den \in {Inf, NegInf}
             THEN (IF num \in {Inf, NegInf} THEN [ok |-> FALSE, exc |-> "ValueError"]
                   ELSE [ok |-> TRUE, v |-> 0])
        ELSE IF den.n = 0 THEN [ok |-> FALSE, exc |-> "ZeroDivisionError"]
        ELSE IF num \in {Inf, NegInf} THEN [ok |-> FALSE, exc |-> "OverflowError"]
        ELSE LET q == (Abs(num.n) * levels) \div Abs(den.n)
             IN  [ok |-> TRUE,
                  v |-> IF (num.n < 0) = (den.n < 0) THEN q ELSE 0 - q]

\* table[idx], a negative idx counting from the end.
Index(table, idx) ==
    IF idx >= Len(table) \/ idx < 0 - Len(table) THEN [ok |-> FALSE, exc |-> "IndexError"]
    ELSE [ok |-> TRUE, v |-> table[(IF idx < 0 THEN idx + Len(table) ELSE idx) + 1]]

\* The glyphs " ▁▂▃▄▅▆▇█", the eight blocks named by their code points.
blocks ==
    <<" ", "U+2581", "U+2582", "U+2583", "U+2584", "U+2585", "U+2586", "U+2587",
      "U+2588">>

\* The sampling walking the values from the newest to the oldest.
Resampled_backwards(values, target) ==
    IF target = 0 THEN [ok |-> FALSE, exc |-> "ZeroDivisionError"]
    ELSE IF target < 0 THEN [ok |-> TRUE, v |-> <<>>]
    ELSE [ok |-> TRUE,
          v |-> [i \in 1..target |->
                    values[Len(values) - SampleIndex(i - 1, Len(values), target)]]]

\* No sampling: every value is kept.
Resampled_keeping_all(values, target) ==
    IF target = 0 THEN [ok |-> FALSE, exc |-> "ZeroDivisionError"]
    ELSE [ok |-> TRUE, v |-> values]

\* values = [values[int(i * step)] for i in range(target)] when there are
\* more values than target, where step = len(values) / target.
Resampled(values, target) ==
    IF target = 0 THEN [ok |-> FALSE, exc |-> "ZeroDivisionError"]
    ELSE IF target < 0 THEN [ok |-> TRUE, v |-> <<>>]
    ELSE [ok |-> TRUE,
          v |-> [i \in 1..target |->
                    values[SampleIndex(i - 1, Len(values), target) + 1]]]

\* The outcome of a loop building a string from one step per sample: the
\* first step that raises ends it.
Rendered(steps) ==
    IF \E i \in DOMAIN steps : ~steps[i].ok
    THEN Raise(steps[CHOOSE i \in DOMAIN steps :
                        ~steps[i].ok /\ \A j \in 1..(i - 1) : steps[j].ok].exc)
    ELSE Return([i \in DOMAIN steps |-> steps[i].v])

\* The glyph taken from eight levels, 0 to 7, in place of nine.
AsciiGlyph_of_eight(v, min_val, max_val) ==
    LET idx == Level(v, min_val, max_val, 7)
    IN  IF ~idx.ok THEN idx ELSE Index(blocks, idx.v)

\* idx = int(normalized * 8); blocks[idx]
AsciiGlyph(v, min_val, max_val) ==
    LET idx == Level(v, min_val, max_val, 8)
    IN  IF ~idx.ok THEN idx ELSE Index(blocks, idx.v)

\* The renderer without its case for a flat line.
generate_ascii_sparkline_without_flat_case(values, width) ==
    IF values = <<>> THEN Return(<<>>)
    ELSE LET min_val == MinFrom(values, 2, values[1])
             max_val == MaxFrom(values, 2, values[1])
             sampled == IF Len(values) > width THEN Resampled(values, width)
                        ELSE [ok |-> TRUE, v |-> values]
         IN  IF ~sampled.ok THEN Raise(sampled.exc)
             ELSE Rendered([i \in DOMAIN sampled.v |->
                               AsciiGlyph(sampled.v[i], min_val, max_val)])

generate_ascii_sparkline(values, width) ==
    IF values = <<>> THEN Return(<<>>)
    ELSE LET min_val == MinFrom(values, 2, values[1])
             max_val == MaxFrom(values, 2, values[1])
         IN  IF max_val # NaN /\ max_val = min_val
             THEN Return([i \in 1..Min(Len(values), width) |-> blocks[4 + 1]])
             ELSE LET sampled == IF Len(values) > width THEN Resampled(values, width)
                                 ELSE [ok |-> TRUE, v |-> values]
                  IN  IF ~sampled.ok THEN Raise(sampled.exc)
                      ELSE Rendered([i \in DOMAIN sampled.v |->
                                        AsciiGlyph(sampled.v[i], min_val, max_val)])

LEFT_HEIGHTS == <<0, 64, 64 + 4, 64 + 4 + 2, 64 + 4 + 2 + 1>>
RIGHT_HEIGHTS == <<0, 128, 128 + 32, 128 + 32 + 16, 128 + 32 + 16 + 8>>
BRAILLE_BASE == 10240

\* The character with its two columns exchanged.
BrailleChar_columns_exchanged(left, right, min_val, max_val) ==
    LET left_height == Level(right, min_val, max_val, 4)
        right_height == Level(left, min_val, max_val, 4)
        l == Index(LEFT_HEIGHTS, left_height.v)
        r == Index(RIGHT_HEIGHTS, right_height.v)
    IN  IF ~left_height.ok THEN left_height
        ELSE IF ~right_height.ok THEN right_height
        ELSE IF ~l.ok THEN l
        ELSE IF ~r.ok THEN r
        ELSE [ok |-> TRUE, v |-> BRAILLE_BASE + l.v + r.v]

\* chr(BRAILLE_BASE + LEFT_HEIGHTS[left_height] + RIGHT_HEIGHTS[right_height]),
\* a character being its code point.
BrailleChar(left, right, min_val, max_val) ==
    LET left_height == Level(left, min_val, max_val, 4)
        right_height == Level(right, min_val, max_val, 4)
        l == Index(LEFT_HEIGHTS, left_height.v)
        r == Index(RIGHT_HEIGHTS, right_height.v)
    IN  IF ~left_height.ok THEN left_height
        ELSE IF ~right_height.ok THEN right_height
        ELSE IF ~l.ok THEN l
        ELSE IF ~r.ok THEN r
        ELSE [ok |-> TRUE, v |-> BRAILLE_BASE + l.v + r.v]

generate_braille_sparkline(values, width) ==
    IF values = <<>> THEN Return(<<>>)
    ELSE LET min_val == MinFrom(values, 2, values[1])
             max_val == MaxFrom(values, 2, values[1])
             target_points == width * 2
         IN  IF max_val # NaN /\ max_val = min_val
             THEN Return([i \in 1..width |->
                             BRAILLE_BASE + LEFT_HEIGHTS[2 + 1] + RIGHT_HEIGHTS[2 + 1]])
             ELSE LET sampled ==
                          IF Len(values) > target_points
                          THEN Resampled(values, target_points)
                          ELSE [ok |-> TRUE,
                                v |-> values \o [i \in 1..(target_points - Len(values)) |->
                                                    values[Len(values)]]]
                  IN  IF ~sampled.ok THEN Raise(sampled.exc)
                      ELSE Rendered([k \in 1..((Len(sampled.v) + 1) \div 2) |->
                                        BrailleChar(sampled.v[2 * k - 1],
                                                    IF 2 * k <= Len(sampled.v)
                                                    THEN sampled.v[2 * k]
                                                    ELSE sampled.v[2 * k - 1],
                                                    min_val, max_val)])

-----------------------------------------------------------------------------
(* The arguments handed to the renderers *)

MaxValues == 4
MaxRamp == 30

\* Lists of up to MaxValues floats, three of them not finite, with a width
\* up to MaxValues; and the ramps 1, 2, ..., n up to MaxRamp with a width up
\* to MaxRamp, on which the double arithmetic of the sampling shows.
RenderInputs ==
    ((UNION {[1..n -> {JNum(0), JNum(1), JNum(5), Inf, NegInf, NaN}] : n \in 0..MaxValues})
        \X (1..MaxValues))
    \cup ({[k \in 1..n |-> JNum(k)] : n \in 1..MaxRamp} \X (1..MaxRamp))

\* Observation dicts, newest first, with finite values: short lists with
\* any points, and the ramps n, ..., 2, 1 taken whole.
PipelineInputs ==
    ((UNION {[1..n -> {[value |-> JNum(v)] : v \in {0, 1, 2, 5}}] : n \in 0..MaxValues})
        \X (0..(MaxValues + 1)) \X (1..MaxValues))
    \cup {<<[k \in 1..n |-> [value |-> JNum(n + 1 - k)]], n, w>> :
             n \in 1..MaxRamp, w \in 1..MaxRamp}

-----------------------------------------------------------------------------
(* Calls of the renderers *)

GenerateAsciiSparkline ==
    /\ pc = "idle"
    /\ \E in \in RenderInputs :
          Transformed("generate_ascii_sparkline", [values |-> in[1], width |-> in[2]],
                      generate_ascii_sparkline(in[1], in[2]))

GenerateBrailleSparkline ==
    /\ pc = "idle"
    /\ \E in \in RenderInputs :
          Transformed("generate_braille_sparkline", [values |-> in[1], width |-> in[2]],
                      generate_braille_sparkline(in[1], in[2]))

\* sparkline_data = prepare_sparkline_data(obs_dicts, points) and then
\* generate_ascii_sparkline(sparkline_data, width), as the page generator and
\* the integration test chain them.
SparklineFromObservations ==
    /\ pc = "idle"
    /\ \E in \in PipelineInputs :
          LET sparkline_data == prepare_sparkline_data(in[1], in[2]).result
          IN  Transformed("sparkline_from_observations",
                          [observations |-> in[1], points |-> in[2], width |-> in[3],
                           values |-> sparkline_data],
                          generate_ascii_sparkline(sparkline_data, in[3]))

NextS ==
    \/ GenerateAsciiSparkline
    \/ GenerateBrailleSparkline
    \/ SparklineFromObservations
    \/ NextCall

SpecS == Init /\ [][NextS]_vars

-----------------------------------------------------------------------------
(* Claims about the renderers *)

RenderDone(fn) == TransformDone(fn)

\* Every value is a finite number.
Finite(values) == \A i \in DOMAIN values : values[i].t = "num"

\* a == b on floats: NaN equals nothing.
FloatEq(a, b) == a # NaN /\ a = b

\* The level 0..8 a block glyph stands for.
GlyphLevel(glyph) == CHOOSE k \in 0..8 : blocks[k + 1] = glyph

NonDecreasing(levels) ==
    \A i \in DOMAIN levels : \A j \in DOMAIN levels : i < j => levels[i] <= levels[j]

\* C21: whenever the observations, newest first, have values that never
\* fall in chronological order, whatever points and width >= 1 are, the
\* sparkline drawn by generate_ascii_sparkline from what
\* prepare_sparkline_data returns is a string of block glyphs whose levels
\* never fall from left to right, down-sampled or not.
C21_IncreasingStaysNonDecreasing ==
    (/\ RenderDone("sparkline_from_observations")
     /\ \A i \in DOMAIN raw.observations : \A j \in DOMAIN raw.observations :
           i < j => raw.observations[i].value.n >= raw.observations[j].value.n)
    => /\ ret.kind = "return"
       /\ \A i \in DOMAIN ret.result : \E k \in DOMAIN blocks : ret.result[i] = blocks[k]
       /\ NonDecreasing([i \in DOMAIN ret.result |-> GlyphLevel(ret.result[i])])

\* A strictly increasing series of thirty values drawn on twenty-two
\* glyphs, the first blank and the last two levels higher than the first.
C21_Witness ==
    /\ RenderDone("sparkline_from_observations")
    /\ Len(raw.observations) = 30 /\ raw.width = 22
    /\ \A i \in 1..29 : raw.observations[i].value.n > raw.observations[i + 1].value.n
    /\ ret.kind = "return" /\ Len(ret.result) = 22
    /\ GlyphLevel(ret.result[1]) = 0 /\ GlyphLevel(ret.result[22]) >= 2

\* C22: a list of finite values, not all the same, no longer than the
\* width, whose first value is its least and whose last value is its
\* greatest, is drawn with the glyph of level 0 first and the glyph of level
\* 8 last.
C22_LowestFirstHighestLast ==
    (/\ RenderDone("generate_ascii_sparkline")
     /\ raw.values # <<>> /\ Finite(raw.values)
     /\ Len(raw.values) <= raw.width
     /\ \E i \in DOMAIN raw.values : raw.values[i] # raw.values[1]
     /\ \A i \in DOMAIN raw.values :
           /\ raw.values[1].n <= raw.values[i].n
           /\ raw.values[i].n <= raw.values[Len(raw.values)].n)
    => /\ ret.kind = "return"
       /\ Len(ret.result) = Len(raw.values)
       /\ ret.result[1] = blocks[0 + 1]
       /\ ret.result[Len(ret.result)] = blocks[8 + 1]

\* 1, 2, ..., 8 drawn at width 8.
C22_Witness ==
    /\ RenderDone("generate_ascii_sparkline")
    /\ raw.values = [k \in 1..8 |-> JNum(k)] /\ raw.width = 8
    /\ ret.kind = "return"
    /\ ret.result[1] = blocks[0 + 1] /\ ret.result[8] = blocks[8 + 1]

\* C23: a non-empty list whose values are all equal (as floats compare: NaN
\* equals nothing), a single value included, is drawn as the glyph of level
\* 4 repeated min(len(values), width) times.
C23_FlatIsMidLevel ==
    (/\ RenderDone("generate_ascii_sparkline")
     /\ raw.values # <<>>
     /\ \A i \in DOMAIN raw.values : \A j \in DOMAIN raw.values :
           FloatEq(raw.values[i], raw.values[j]))
    => /\ ret.kind = "return"
       /\ Len(ret.result) = Min(Len(raw.values), raw.width)
       /\ \A i \in DOMAIN ret.result : ret.result[i] = blocks[4 + 1]

\* Four equal values drawn at width 2.
C23_Witness ==
    /\ RenderDone("generate_ascii_sparkline")
    /\ raw.values = [k \in 1..4 |-> JNum(5)] /\ raw.width = 2
    /\ ret = Return(<<blocks[4 + 1], blocks[4 + 1]>>)

\* C24: generate_ascii_sparkline and generate_braille_sparkline raise, and
\* return no string, whenever the values hold an infinity or a NaN at any
\* position, a list of one same infinity included.
C24_NonFiniteRaises ==
    (/\ RenderDone("generate_ascii_sparkline") \/ RenderDone("generate_braille_sparkline")
     /\ ~Finite(raw.values))
    => ret.kind = "raise"

\* The least and the greatest of finite values.
Least(values) ==
    CHOOSE m \in {values[i].n : i \in DOMAIN values} :
        \A i \in DOMAIN values : m <= values[i].n
Greatest(values) ==
    CHOOSE m \in {values[i].n : i \in DOMAIN values} :
        \A i \in DOMAIN values : values[i].n <= m

\* The level of v among levels + 1 levels, 0 to levels, of the finite values
\* it is taken from: the middle level when the values are all the same.
LevelAmong(v, values, levels) ==
    IF Greatest(values) = Least(values) THEN levels \div 2
    ELSE ((v.n - Least(values)) * levels) \div (Greatest(values) - Least(values))

\* The 2 * width samples the braille renderer draws: the values followed by
\* copies of the last one, or those picked at the sampling indices.
BrailleSamples(values, width) ==
    IF Len(values) <= 2 * width
    THEN [j \in 1..(2 * width) |-> values[Min(j, Len(values))]]
    ELSE [j \in 1..(2 * width) |-> values[SampleIndex(j - 1, Len(values), 2 * width) + 1]]

\* C25: for non-empty finite values and a width >= 1,
\* generate_braille_sparkline returns exactly width characters, and
\* character k is code point 0x2800 plus the left-column pattern of the
\* level 0..4 of sample 2k and the right-column pattern of the level 0..4
\* of sample 2k+1 (k from 0) of exactly 2 * width samples: the values
\* padded with the last value when there are fewer, picked by index when
\* there are more.
C25_BrailleTwoSamplesPerCharacter ==
    (/\ RenderDone("generate_braille_sparkline")
     /\ raw.values # <<>> /\ Finite(raw.values))
    => /\ ret.kind = "return"
       /\ Len(ret.result) = raw.width
       /\ LET samples == BrailleSamples(raw.values, raw.width)
          IN  \A k \in 1..raw.width :
                 LET left == LevelAmong(samples[2 * k - 1], raw.values, 4)
                     right == LevelAmong(samples[2 * k], raw.values, 4)
                 IN  /\ left \in 0..4 /\ right \in 0..4
                     /\ ret.result[k] =
                           10240 + <<0, 64, 68, 70, 71>>[left + 1]
                                 + <<0, 128, 160, 176, 184>>[right + 1]

\* Three values padded to four samples on two characters, the first with
\* empty columns and the second with full ones.
C25_Witness ==
    /\ RenderDone("generate_braille_sparkline")
    /\ raw.values = <<JNum(0), JNum(1), JNum(5)>> /\ raw.width = 2
    /\ ret = Return(<<10240 + 0 + 0, 10240 + 71 + 184>>)

\* C29: for non-empty finite values and a width >= 1,
\* generate_ascii_sparkline returns exactly min(len(values), width)
\* characters, each the block glyph of a level within 0..8: the level of
\* the value drawn there among the least and the greatest of all the values
\* given, sampled or not.
C29_AsciiLengthAndLevels ==
    (/\ RenderDone("generate_ascii_sparkline")
     /\ raw.values # <<>> /\ Finite(raw.values))
    => /\ ret.kind = "return"
       /\ Len(ret.result) = Min(Len(raw.values), raw.width)
       /\ \A i \in DOMAIN ret.result :
             LET v == IF Len(raw.values) > raw.width
                      THEN raw.values[SampleIndex(i - 1, Len(raw.values), raw.width) + 1]
                      ELSE raw.values[i]
                 level == LevelAmong(v, raw.values, 8)
             IN  level \in 0..8 /\ ret.result[i] = blocks[level + 1]

\* Four values sampled down to two glyphs of unlike levels.
C29_Witness ==
    /\ RenderDone("generate_ascii_sparkline")
    /\ raw.values = <<JNum(5), JNum(0), JNum(1), JNum(0)>> /\ raw.width = 2
    /\ ret = Return(<<blocks[8 + 1], blocks[1 + 1]>>)

\* C30: when there are more values than the width (n > w), position i of
\* the string generate_ascii_sparkline returns, i in 0..w-1, draws input
\* element floor(i * n / w); those indices are strictly increasing, begin
\* at the first element and never reach the last one.
C30_DrawsElementAtFloor ==
    (/\ RenderDone("generate_ascii_sparkline")
     /\ Finite(raw.values) /\ Len(raw.values) > raw.width
     /\ ret.kind = "return")
    => LET n == Len(raw.values)
           w == raw.width
           drawn == [i \in 0..(w - 1) |-> (i * n) \div w]
       IN  /\ \A i \in 0..(w - 1) :
                ret.result[i + 1] = blocks[LevelAmong(raw.values[drawn[i] + 1], raw.values, 8) + 1]
           /\ \A i \in 0..(w - 2) : drawn[i] < drawn[i + 1]
           /\ drawn[0] = 0 /\ drawn[w - 1] < n - 1

\* What the sampling does draw: the element at floor(i * n / w) or the one
\* before it, at strictly increasing indices from the first element and
\* short of the last.
C30_DrawsElementAtFloorOrBefore ==
    (/\ RenderDone("generate_ascii_sparkline")
     /\ Len(raw.values) > raw.width)
    => LET n == Len(raw.values)
           w == raw.width
           drawn == [i \in 0..(w - 1) |-> SampleIndex(i, n, w)]
       IN  /\ \A i \in 0..(w - 1) : drawn[i] \in {(i * n) \div w, (i * n) \div w - 1}
           /\ \A i \in 0..(w - 2) : drawn[i] < drawn[i + 1]
           /\ drawn[0] = 0 /\ drawn[w - 1] < n - 1

-----------------------------------------------------------------------------
(* The normalize of the sources that carry no date: CoinGecko, HuggingFace
   and Vast.ai stamp their one Observation with the day of the call.
   `today` is datetime.now().strftime("%Y-%m-%d") at the call. *)

\* round(x * config.multiplier, config.decimals) of x = twice / 2.
ScaledHalf(twice, cfg) ==
    LET q == 2 * Unit * Pow10(3 - cfg.decimals)
    IN  RoundHalfEven(twice * cfg.multiplier, q) * Pow10(3 - cfg.decimals)

(* coingecko.CoinGeckoConnector.normalize *)

CoinGeckoConnector_normalize(cfg, today, raw_data) ==
    IF raw_data.t # "dict" THEN Raise("AttributeError")
    ELSE LET market_data == Get(raw_data, "market_data", EmptyDict)
         IN  IF market_data.t # "dict" THEN Raise("AttributeError")
             ELSE LET prices == Get(market_data, "current_price", EmptyDict)
                  IN  IF prices.t # "dict" THEN Raise("AttributeError")
                      ELSE LET current_price == Get(prices, "usd", JNull)
                               f == ToFloat(current_price)
                           IN  IF current_price = JNull THEN Normalized(<<>>)
                               \* ValueError and TypeError are caught
                               ELSE IF ~f.ok THEN Normalized(<<>>)
                               ELSE Normalized(<<Observation(cfg.metric_id, JStr(today),
                                        Scaled(f.v, cfg),
                                        IF Truthy(cfg.unit) THEN cfg.unit ELSE "$",
                                        "coingecko")>>)

(* huggingface.HuggingFaceConnector.normalize *)

HuggingFaceConnector_normalize(cfg, today, raw_data) ==
    IF raw_data.t = "dict" /\ Has(raw_data, "top_score")
    THEN LET top_score == raw_data.d.top_score
         IN  IF top_score.t # "num" THEN Raise("TypeError")
             ELSE Normalized(<<Observation(cfg.metric_id, JStr(today),
                                           Scaled(top_score.n, cfg), cfg.unit,
                                           "huggingface")>>)
    ELSE Normalized(<<>>)

(* vastai.VastAIConnector.normalize *)

GPU_MODELS ==
    [m \in {"H100_80GB", "A100_80GB", "A100_40GB", "RTX_4090", "RTX_3090"} |->
        CASE m = "H100_80GB" ->
                <<<<"H", "1", "0", "0">>, <<"H", "1", "0", "0", " ", "8", "0", "G", "B">>, <<"H", "1", "0", "0", "-", "8", "0", "G", "B">>, <<"H", "1", "0", "0", " ", "S", "X", "M", "5">>>>
          [] m = "A100_80GB" ->
                <<<<"A", "1", "0", "0">>, <<"A", "1", "0", "0", " ", "8", "0", "G", "B">>, <<"A", "1", "0", "0", "-", "8", "0", "G", "B">>, <<"A", "1", "0", "0", " ", "S", "X", "M", "4">>>>
          [] m = "A100_40GB" ->
                <<<<"A", "1", "0", "0", " ", "4", "0", "G", "B">>, <<"A", "1", "0", "0", "-", "4", "0", "G", "B">>>>
          [] m = "RTX_4090" ->
                <<<<"R", "T", "X", " ", "4", "0", "9", "0">>, <<"4", "0", "9", "0">>>>
          [] OTHER ->
                <<<<"R", "T", "X", " ", "3", "0", "9", "0">>, <<"3", "0", "9", "0">>>>]

fallback_prices ==
    [m \in {"H100_80GB", "A100_80GB", "A100_40GB", "RTX_4090", "RTX_3090"} |->
        CASE m = "H100_80GB" -> 2500
          [] m = "A100_80GB" -> 1500
          [] m = "A100_40GB" -> 1000
          [] m = "RTX_4090" -> 400
          [] OTHER -> 250]

UpperCase == <<"A", "B", "C", "D", "E", "F", "G", "H", "I", "J", "K", "L", "M", "N", "O", "P", "Q", "R", "S", "T", "U", "V", "W", "X", "Y", "Z">>
LowerCase == <<"a", "b", "c", "d", "e", "f", "g", "h", "i", "j", "k", "l", "m", "n", "o", "p", "q", "r", "s", "t", "u", "v", "w", "x", "y", "z">>

\* str.lower()
Lower(s) ==
    [i \in DOMAIN s |->
        IF \E k \in DOMAIN UpperCase : UpperCase[k] = s[i]
        THEN LowerCase[CHOOSE k \in DOMAIN UpperCase : UpperCase[k] = s[i]]
        ELSE s[i]]

\* The patterns of a model: GPU_MODELS.get(gpu_model, [gpu_model]).  A model
\* named by the configuration is a key of the table or, like a model named
\* by the payload itself, its own pattern.
GPUPatterns(gpu_model) ==
    IF gpu_model.t = "cstr" /\ gpu_model.s \in DOMAIN GPU_MODELS
    THEN GPU_MODELS[gpu_model.s]
    ELSE <<gpu_model.s>>

\* The body of the loop over the offers: the price appended, if any.
VastAIOffer(gpu_patterns, offer) ==
    IF offer.t # "dict" THEN Throw("AttributeError")
    ELSE LET gpu_name == Get(offer, "gpu_name", JStr(<<>>))
             price == Get(offer, "dph_total", JNull)
         IN  IF gpu_name.t # "str" THEN Throw("AttributeError")
             ELSE IF \E p \in DOMAIN gpu_patterns :
                        Contains(Lower(gpu_name.s), Lower(gpu_patterns[p]))
             THEN (IF ~JTruthy(price) THEN Skip
                   ELSE IF price.t # "num" THEN Throw("TypeError")
                   ELSE IF price.n > 0 THEN Emit(price.n) ELSE Skip)
             ELSE Skip

\* sorted(prices), by insertion.
RECURSIVE SortedPrices(_)
SortedPrices(prices) ==
    IF prices = <<>> THEN <<>>
    ELSE LET rest == SortedPrices(Tail(prices))
             below == SelectSeq(rest, LAMBDA p : p <= prices[1])
             above == SelectSeq(rest, LAMBDA p : p > prices[1])
         IN  below \o <<prices[1]>> \o above

\* Twice statistics.median(prices): the middle price, or the mean of the
\* two middle ones.
TwiceMedian(prices) ==
    LET data == SortedPrices(prices)
        n == Len(data)
    IN  IF n % 2 = 1 THEN 2 * data[n \div 2 + 1]
        ELSE data[n \div 2] + data[n \div 2 + 1]

VastAIConnector_normalize(cfg, today, raw_data) ==
    IF raw_data.t = "dict" /\ JTruthy(Get(raw_data, "fallback", JNull))
    THEN LET gpu_model == Get(raw_data, "gpu_model", CStr("H100_80GB"))
             price == IF gpu_model.t = "cstr" /\ gpu_model.s \in DOMAIN fallback_prices
                      THEN fallback_prices[gpu_model.s] ELSE Unit
         IN  Normalized(<<Observation(cfg.metric_id, JStr(today), Scaled(price, cfg),
                                      cfg.unit, "vastai")>>)
    ELSE IF raw_data.t # "dict" THEN Raise("AttributeError")
    ELSE LET gpu_model == Get(raw_data, "gpu_model", CStr("H100_80GB"))
             offers == Get(raw_data, "offers", EmptyList)
             gpu_patterns == GPUPatterns(gpu_model)
             prices == IF offers.t = "list"
                       THEN NormLoop({}, [i \in DOMAIN offers.l |->
                                             VastAIOffer(gpu_patterns, offers.l[i])], <<>>)
                       ELSE Raise("TypeError")
         IN  IF prices.kind = "raise" THEN prices
             ELSE IF prices.result = <<>> THEN Normalized(<<>>)
             ELSE Normalized(<<Observation(cfg.metric_id, JStr(today),
                                           ScaledHalf(TwiceMedian(prices.result), cfg),
                                           cfg.unit, "vastai")>>)

-----------------------------------------------------------------------------
(* Calls of normalize on a day *)

\* The days the clock reads.
Days ==
    {<<"2", "0", "2", "4", "-", "1", "0", "-", "0", "1">>,
     <<"2", "0", "2", "4", "-", "1", "0", "-", "0", "2">>}

CoinGeckoPayloads ==
    {JDict([market_data |-> JDict([current_price |-> JDict([usd |-> v])])]) :
        v \in NumberValues \cup {JNull, JStr(<<"a", "b", "c">>), EmptyList}}
    \cup {EmptyDict, JDict([market_data |-> EmptyDict]), JNull}

HuggingFacePayloads ==
    {JDict([top_score |-> v, top_model |-> JStr(<<"a">>)]) :
        v \in NumberValues \cup {JNull}}
    \cup {EmptyDict, EmptyList}

VastAIOffers ==
    {Dict2("gpu_name", JStr(g), "dph_total", p) :
        g \in {<<"R", "T", "X", " ", "4", "0", "9", "0">>, <<"H", "1", "0", "0", " ", "S", "X", "M", "5">>},
        p \in NumberValues \cup {JNull}}
    \cup {Dict2("gpu_name", Absent, "dph_total", JNum(1500))}

VastAIPayloads ==
    {JDict([offers |-> JList(offers), gpu_model |-> m]) :
        offers \in Payloads(VastAIOffers),
        m \in {CStr("RTX_4090"), CStr("H100_80GB"), JStr(<<"h", "1", "0", "0">>)}}
    \cup {JDict([fallback |-> JBool(TRUE), gpu_model |-> CStr(m)]) :
            m \in {"RTX_4090", "H100_80GB", "T4"}}
    \cup {EmptyDict, EmptyList}

\* A normalize call made on the day `today` ran to its end.
Normalized_at(conn, today, cfg, raw_data, outcome) ==
    /\ pc' = "done"
    /\ op' = [fn |-> "normalize", conn |-> conn, api_key |-> None, utcoffset |-> 0,
              today |-> today]
    /\ config' = cfg
    /\ raw' = raw_data
    /\ reqlog' = <<>>
    /\ ret' = outcome

CoinGeckoNormalize ==
    /\ pc = "idle"
    /\ \E today \in Days, cfg \in Scalings(BaseConfig), raw_data \in CoinGeckoPayloads :
          Normalized_at("coingecko", today, cfg, raw_data,
                        CoinGeckoConnector_normalize(cfg, today, raw_data))

HuggingFaceNormalize ==
    /\ pc = "idle"
    /\ \E today \in Days, cfg \in Scalings(BaseConfig), raw_data \in HuggingFacePayloads :
          Normalized_at("huggingface", today, cfg, raw_data,
                        HuggingFaceConnector_normalize(cfg, today, raw_data))

VastAINormalize ==
    /\ pc = "idle"
    /\ \E today \in Days, cfg \in Scalings(BaseConfig), raw_data \in VastAIPayloads :
          Normalized_at("vastai", today, cfg, raw_data,
                        VastAIConnector_normalize(cfg, today, raw_data))

NextC ==
    \/ CoinGeckoNormalize
    \/ HuggingFaceNormalize
    \/ VastAINormalize
    \/ NextCall

SpecC == Init /\ [][NextC]_vars

-----------------------------------------------------------------------------
(* Claims about normalize and the clock *)

\* normalize of the connector of the call, made on another day.
NormalizeAt(today) ==
    CASE op.conn = "coingecko" -> CoinGeckoConnector_normalize(config, today, raw)
      [] op.conn = "huggingface" -> HuggingFaceConnector_normalize(config, today, raw)
      [] OTHER -> VastAIConnector_normalize(config, today, raw)

\* C26: normalize is a function of (config, raw_data) alone: the same
\* config and the same payload give the same Observations (metric_id,
\* obs_date, value, unit, source, in order) whenever the call is made.
C26_NormalizeIsPure ==
    NormalizeDone => \A today \in Days : NormalizeAt(today) = ret

\* What does hold: the day of the call decides obs_date and nothing else.
C26_PureButForObsDate ==
    NormalizeDone =>
        \A today \in Days :
            LET other == NormalizeAt(today)
            IN  /\ other.kind = ret.kind
                /\ ret.kind = "raise" => other = ret
                /\ ret.kind = "return" =>
                      /\ Len(other.result) = Len(ret.result)
                      /\ \A j \in DOMAIN ret.result :
                            /\ [other.result[j] EXCEPT !.obs_date = ret.result[j].obs_date]
                                  = ret.result[j]
                            /\ ret.result[j].obs_date = JStr(op.today)

-----------------------------------------------------------------------------
(* Two calls in flight at once

   A worker pool runs two connector calls for distinct metrics at the same
   time.  While they run, `config` holds the ConnectorConfig handed to each
   call, `op` the connector objects both calls use (the instance's api_key
   and the class-level tables), `raw` the frame of each call (its local
   variables and its position) with the order in which the calls took their
   steps, `reqlog` the requests in the order they went out and `ret` the
   outcome of each call.  A step is what a call does between two points
   where the other call may run: a fetch up to its request and then from
   the response on, a normalize one turn of its loop. *)

Frame(call) == [call |-> call, at |-> 0, done |-> FALSE, observations |-> <<>>,
                held |-> NoOutcome]

\* The call t returns or raises.
Finished(frames, t, outcome) ==
    [frames |-> [frames EXCEPT ![t].done = TRUE], log |-> <<>>, out |-> outcome]

\* The call t goes on to its next step.
Moved(frames, t) ==
    [frames |-> [frames EXCEPT ![t].at = @ + 1], log |-> <<>>, out |-> NoOutcome]

\* One list of observations for all the calls in flight, in place of the
\* list local to each call.
Appended_shared(frames, t, obs) ==
    [u \in DOMAIN frames |-> [frames[u] EXCEPT !.observations = Append(@, obs)]]

\* observations = [] ... observations.append(obs): the list is a local
\* variable of the call.
Appended(frames, t, obs) == [frames EXCEPT ![t].observations = Append(@, obs)]

\* One turn of a loop whose body skips, appends or raises.
LoopStep(frames, t, st) ==
    IF st.k = "skip" THEN Moved(frames, t)
    ELSE IF st.k = "emit" THEN Moved(Appended(frames, t, st.obs), t)
    ELSE Finished(frames, t, Raise(st.exc))

\* fetch of the call's connector with the response it will be given.
FetchRun(call, cfg, api_key) ==
    CASE call.conn = "oecd" -> OECDConnector_fetch(cfg, call.arg)
      [] call.conn = "coingecko" -> CoinGeckoConnector_fetch(cfg, call.arg)
      [] call.conn = "yahoo" -> YahooFinanceConnector_fetch(cfg, call.arg)
      [] OTHER -> VastAIConnector_fetch(api_key, cfg, call.arg)

\* A fetch: the request is built from the config, the table and the key and
\* sent; then the response is turned into the FetchResult.
FetchStep(frames, t, cfg, api_key) ==
    LET run == FetchRun(frames[t].call, cfg, api_key)
    IN  IF frames[t].at = 0
        THEN [frames |-> [frames EXCEPT ![t].at = 1, ![t].held = run.out],
              log |-> run.log, out |-> NoOutcome]
        ELSE Finished(frames, t, frames[t].held)

\* FRED's normalize: one entry of the payload per step, then the return.
FREDStep(frames, t, cfg) ==
    LET raw_data == frames[t].call.arg
    IN  IF frames[t].at < Len(raw_data)
        THEN LoopStep(frames, t, FREDPoint(cfg, raw_data[frames[t].at + 1]))
        ELSE Finished(frames, t, Normalized(frames[t].observations))

\* Vast.ai's normalize: the fallback or the look-up of the patterns in
\* GPU_MODELS, then one offer per step, then the median.
VastAIStep(frames, t, cfg, today) ==
    LET raw_data == frames[t].call.arg
        at == frames[t].at
        prices == frames[t].observations
    IN  IF at = 0
        THEN (IF raw_data.t # "dict" \/ JTruthy(Get(raw_data, "fallback", JNull))
              THEN Finished(frames, t, VastAIConnector_normalize(cfg, today, raw_data))
              ELSE [frames |-> [frames EXCEPT ![t].at = 1,
                                    ![t].held = GPUPatterns(Get(raw_data, "gpu_model",
                                                                CStr("H100_80GB")))],
                    log |-> <<>>, out |-> NoOutcome])
        ELSE LET offers == Get(raw_data, "offers", EmptyList)
             IN  IF offers.t # "list" THEN Finished(frames, t, Raise("TypeError"))
                 ELSE IF at <= Len(offers.l)
                 THEN LoopStep(frames, t, VastAIOffer(frames[t].held, offers.l[at]))
                 ELSE IF prices = <<>> THEN Finished(frames, t, Normalized(<<>>))
                 ELSE Finished(frames, t,
                          Normalized(<<Observation(cfg.metric_id, JStr(today),
                                                   ScaledHalf(TwiceMedian(prices), cfg),
                                                   cfg.unit, "vastai")>>))

\* The day on which the two calls run.
Today == <<"2", "0", "2", "4", "-", "1", "0", "-", "0", "1">>

\* The next step of call t.
Advance(frames, t, cfg, api_key) ==
    LET call == frames[t].call
    IN  IF call.fn = "fetch" THEN FetchStep(frames, t, cfg, api_key)
        ELSE IF call.conn = "fred" THEN FREDStep(frames, t, cfg)
        ELSE VastAIStep(frames, t, cfg, Today)

\* What the call returns when nothing else runs.
Alone(call, cfg, api_key) ==
    IF call.fn = "fetch" THEN FetchRun(call, cfg, api_key).out
    ELSE IF call.conn = "fred" THEN FREDConnector_normalize(cfg, call.arg)
    ELSE VastAIConnector_normalize(cfg, Today, call.arg)

\* The class-level tables of the connectors.
ClassTables ==
    [COIN_MAP |-> COIN_MAP, SYMBOL_MAP |-> SYMBOL_MAP, METRIC_MAP |-> METRIC_MAP,
     GPU_MODELS |-> GPU_MODELS]

FREDEntry(month, value) ==
    Dict2("date", JStr(<<"2", "0", "2", "4", "-", "0", month, "-", "0", "1">>),
          "value", JStr(value))

ConcurrentCalls ==
    {[fn |-> "fetch", conn |-> conn, arg |-> resp] :
        conn \in {"oecd", "coingecko", "yahoo", "vastai"},
        resp \in {HttpResponse(200, EmptyDict), HttpResponse(401, NotJSON),
                  ErrorResponse("Read timed out")}}
    \cup {[fn |-> "normalize", conn |-> "fred", arg |-> raw_data] :
            raw_data \in {<<FREDEntry("1", <<"1", ".", "5">>), FREDEntry("2", <<"2", ".", "1", "2", "5">>)>>,
                          <<FREDEntry("3", <<".">>), FREDEntry("4", <<"1", ".", "5">>)>>,
                          <<FREDEntry("5", <<"1", ".", "5">>),
                            Dict2("date", Absent, "value", JStr(<<"1", ".", "5">>))>>}}
    \cup {[fn |-> "normalize", conn |-> "vastai", arg |-> raw_data] :
            raw_data \in {JDict([fallback |-> JBool(TRUE), gpu_model |-> CStr("RTX_4090")]),
                          JDict([offers |-> JList(<<Dict2("gpu_name", JStr(<<"R", "T", "X", " ", "4", "0", "9", "0">>),
                                                         "dph_total", JNum(1500)),
                                                   Dict2("gpu_name", JStr(<<"4", "0", "9", "0">>),
                                                         "dph_total", JNum(2125))>>),
                                 gpu_model |-> CStr("RTX_4090")])}}

\* The configs of two distinct metrics.
ConcurrentConfigs ==
    {<<[BaseConfig EXCEPT !.metric_id = <<"us", "cpi_yoy">>],
       [BaseConfig EXCEPT !.metric_id = <<"crypto", "bitcoin">>, !.series_id = "RTX_4090",
                          !.multiplier = 100 * Unit, !.decimals = 1, !.unit = "%"]>>,
     <<[BaseConfig EXCEPT !.metric_id = <<"global", "brent">>],
       [BaseConfig EXCEPT !.metric_id = <<"global", "dxy">>]>>}

StartCalls ==
    /\ pc = "idle"
    /\ \E first \in ConcurrentCalls, second \in ConcurrentCalls,
          cfgs \in ConcurrentConfigs, api_key \in {None, "key"} :
          /\ pc' = "running"
          /\ op' = [fn |-> "concurrent", conn |-> "none", api_key |-> api_key,
                    tables |-> ClassTables]
          /\ config' = cfgs
          /\ raw' = [frames |-> <<Frame(first), Frame(second)>>, schedule |-> <<>>]
          /\ reqlog' = <<>>
          /\ ret' = <<NoOutcome, NoOutcome>>

\* One of the calls takes its next step.
StepCall ==
    /\ pc = "running"
    /\ \E t \in DOMAIN raw.frames :
          /\ ~raw.frames[t].done
          /\ LET step == Advance(raw.frames, t, config[t], op.api_key)
             IN  /\ raw' = [frames |-> step.frames, schedule |-> Append(raw.schedule, t)]
                 /\ reqlog' = reqlog \o step.log
                 /\ ret' = IF step.frames[t].done THEN [ret EXCEPT ![t] = step.out] ELSE ret
    /\ UNCHANGED <<pc, op, config>>

\* Both calls are over: the pool hands their outcomes back.
JoinCalls ==
    /\ pc = "running"
    /\ \A t \in DOMAIN raw.frames : raw.frames[t].done
    /\ pc' = "done"
    /\ UNCHANGED <<op, config, raw, reqlog, ret>>

NextI ==
    \/ StartCalls
    \/ StepCall
    \/ JoinCalls
    \/ NextCall

SpecI == Init /\ [][NextI]_vars

-----------------------------------------------------------------------------
(* Claims about calls in flight at once *)

\* C27: connectors share no mutable state: however the steps of two calls
\* (fetch or normalize, for distinct metrics, on the same connector objects)
\* interleave, no step writes the configs, the instance or the class-level
\* tables COIN_MAP, SYMBOL_MAP, METRIC_MAP and GPU_MODELS, and each call
\* that ends returns what it returns when run alone.
C27_CallsDoNotInterfere ==
    [][pc = "running" =>
          /\ config' = config
          /\ op' = op
          /\ op.tables = ClassTables
          /\ \A t \in DOMAIN raw.frames :
                raw'.frames[t].done =>
                    ret'[t] = Alone(raw.frames[t].call, config[t], op.api_key)]_vars

\* Two FRED normalize calls of two entries each took their steps in turn,
\* and each returned its own two Observations.
C27_Witness ==
    /\ pc = "done" /\ op.fn = "concurrent"
    /\ \A t \in 1..2 : raw.frames[t].call.fn = "normalize"
                       /\ raw.frames[t].call.conn = "fred"
    /\ raw.schedule = <<1, 2, 1, 2, 1, 2>>
    /\ \A t \in 1..2 : ret[t].kind = "return" /\ Len(ret[t].result) = 2
                       /\ \A j \in 1..2 : ret[t].result[j].metric_id = config[t].metric_id

====
